---- MODULE Spec2Model ----
(***************************************************************************)
(* The FNCS API: connection handling (utils/db.py) with the request        *)
(* handlers that use it (routes/auth_routes.py, routes/category_routes.py),*)
(* the JWT gates (middleware/auth_middleware.py) with the token handlers   *)
(* of routes/auth_routes.py, and password hashing (utils/password.py).     *)
(*                                                                         *)
(* The pool is psycopg2.pool.SimpleConnectionPool, created in              *)
(* initialize_connection_pool.  Its getconn and putconn are modelled by    *)
(* what that class does: an idle list (_pool), a key -> connection         *)
(* dictionary of leases (_used), the reverse dictionary (_rused) and the   *)
(* key counter (_keys).  SimpleConnectionPool takes no lock, and the       *)
(* worker process runs several request threads (gunicorn_config.py), so    *)
(* the steps of getconn between which another thread can run are separate  *)
(* actions.                                                                *)
(*                                                                         *)
(* PyJWT and bcrypt are modelled by what they do as well: jwt.encode       *)
(* stores exp and iat as whole seconds and jwt.decode checks the signature *)
(* and then exp <= now against a clock that is finer than a second;        *)
(* bcrypt uses the first bytes of a password up to its limit, or refuses   *)
(* a longer password, depending on the release.                            *)
(***************************************************************************)
EXTENDS Integers, Sequences, FiniteSets, TLC

\* ---------------------------------------------------------------- bounds
\* request threads of one worker process (gunicorn_config.py sets 4)
NumThreads == 2
\* requests (Spec) or calls (SpecDb) started in one behaviour
MaxRequests == 3
\* connection objects ever opened in one behaviour
MaxConns == 3
\* a SpecRetryAny caller passes retries from -MaxNegRetries up to MaxRetries
MaxNegRetries == 1
\* largest retries argument a SpecDb caller passes
MaxRetries == 3
\* register and login requests in one behaviour of SpecLogin
MaxLoginCalls == 2
\* category requests in one behaviour of SpecCategories
MaxCategoryCalls == 2
\* characters of the longest email a client sends
MaxEmailLen == 2
\* validate_password's least length, on the scale of MaxPasswordLen (6 of 100)
MinPasswordLen == 2
\* largest delay argument a SpecDb caller passes
MaxDelay == 2
\* get_db_connection and return_db_connection calls of a SpecDb caller
MaxCalls == 4
\* the pool's maximum size; utils/db.py line 25 passes 20
maxconn == 2
\* clock ticks in one second
Resolution == 2
\* the clock stops after this many ticks
MaxNow == 6
\* largest JWT_ACCESS_TOKEN_EXPIRES configured, in seconds (config.py: 3600)
MaxTtl == 2
\* tokens issued in one behaviour
MaxTokens == 1
\* users that can log in
NumUsers == 2
\* longest password, in characters (validators.py allows 100)
MaxPasswordLen == 3
\* bytes of a password that bcrypt uses; the library's limit is 72
bcrypt_limit == 3
\* hash_password calls in one behaviour
MaxHashes == 2

\* ------------------------------------------------------ program constants
minconn == 1
DefaultRetries == 3
DefaultDelay == 2
StatementTimeoutMs == 30000

\* config.py with no environment set
DefaultConfig ==
  [JWT_SECRET_KEY |-> "dev-secret-key-change-in-production",
   JWT_ALGORITHM |-> "HS256",
   JWT_ACCESS_TOKEN_EXPIRES |-> 3600]

None == 0

VARIABLES
  connection_pool,  \* "None" or "SimpleConnectionPool": the module global
  pool,             \* the pool object: [idle, used, rused, keys]
  conns,            \* connection object -> "none", "idle", "intrans", "unknown", "closed"
  th,               \* per thread: position and locals
  handles,          \* SpecDb: connections the caller has a reference to
  started,          \* requests or calls started so far
  loaded,           \* utils/db.py has been imported (the pool initialised)
  response,         \* the last answer sent: [kind, status, error]
  now,              \* the clock, in ticks of 1/Resolution second
  tokens,           \* the tokens login has issued
  issued,           \* token -> the clock when login issued it
  request,          \* per thread: the Flask request and how far it has got
  Config,           \* config.py: the Config class attributes the JWT code reads
  pw,               \* utils/password.py: the bcrypt build, the digests made, the last call
  store             \* the database: the rows of users and of categories

vars == <<connection_pool, pool, conns, th, handles, started, loaded, response,
          now, tokens, issued, request, Config, pw, store>>

\* what the connection layer leaves alone
authvars == <<now, tokens, issued, request, Config, pw, store>>

\* the connection layer, as the handlers of SpecLogin and SpecCategories
\* leave it (get_db_connection is a single step there)
layervars == <<connection_pool, pool, conns, th, handles, started, loaded, response, pw>>

\* what the gates and the token handlers leave alone
dbvars == <<layervars, store>>

\* what utils/password.py leaves alone
webvars == <<connection_pool, pool, conns, th, handles, started, loaded, response,
             now, tokens, issued, request, Config, store>>

ConnIds == 1..MaxConns

\* ------------------------------------------------------------ dictionaries
DictSet(d, k, v) == [x \in (DOMAIN d) \cup {k} |-> IF x = k THEN v ELSE d[x]]

DictDel(d, k) == [x \in (DOMAIN d) \ {k} |-> d[x]]

EmptyDict == [x \in {} |-> None]

Range(f) == {f[x] : x \in DOMAIN f}

\* ------------------------------------------------------------ the store
\* the tables as the SQL script creates them: no rows
EmptyStore == [users |-> {}, categories |-> {}]

\* ------------------------------------------------- psycopg2 connection
\* The first connection object not yet created, None when MaxConns exist.
FreshConn ==
  IF \E c \in ConnIds : conns[c] = "none"
  THEN CHOOSE c \in ConnIds : conns[c] = "none" /\ \A d \in ConnIds : conns[d] = "none" => c <= d
  ELSE None

\* conn.rollback(): ends the transaction; raises on a closed connection and on
\* one whose server side is gone (psycopg2 then marks it closed).
rollback(cs, c) ==
  IF cs[c] \in {"idle", "intrans"}
  THEN [raised |-> FALSE, conns |-> [cs EXCEPT ![c] = "idle"]]
  ELSE [raised |-> TRUE, conns |-> [cs EXCEPT ![c] = "closed"]]

\* conn.commit() on a live connection
commit(cs, c) == [cs EXCEPT ![c] = "idle"]

\* conn.close()
close(cs, c) == [cs EXCEPT ![c] = "closed"]

\* cur = conn.cursor(); cur.execute(...): opens a transaction when none is open.
execute(cs, c) ==
  IF cs[c] \in {"idle", "intrans"}
  THEN [raised |-> FALSE, conns |-> [cs EXCEPT ![c] = "intrans"]]
  ELSE [raised |-> TRUE, conns |-> [cs EXCEPT ![c] = "closed"]]

\* ------------------------------------------- SimpleConnectionPool
\* SimpleConnectionPool(1, 20, ...): minconn connections are opened at once.
NewPool == [idle |-> <<1>>, used |-> EmptyDict, rused |-> EmptyDict, keys |-> 0]

NoPool == [idle |-> <<>>, used |-> EmptyDict, rused |-> EmptyDict, keys |-> 0]

\* _getconn once the key is known: "have" (key already leased), "pop" (an
\* idle connection), "exhausted" (PoolError) or "connect" (open a new one).
getconn_branch(p, key) ==
  IF key \in DOMAIN p.used THEN "have"
  ELSE IF p.idle # <<>> THEN "pop"
  ELSE IF Cardinality(DOMAIN p.used) = maxconn THEN "exhausted"
  ELSE "connect"

\* self._used[key] = conn; self._rused[id(conn)] = key
lease(p, key, c) ==
  [p EXCEPT !.used = DictSet(p.used, key, c), !.rused = DictSet(p.rused, c, key)]

\* _putconn(conn): PoolError for a connection with no key; keeps the
\* connection (rolled back) while fewer than minconn are idle, else closes it;
\* then deletes the lease (KeyError when the key is not leased).
putconn(p, cs, c) ==
  IF c \notin DOMAIN p.rused
  THEN [raised |-> TRUE, pool |-> p, conns |-> cs]
  ELSE LET key == p.rused[c]
           keep == Len(p.idle) < minconn
           alive == cs[c] \in {"idle", "intrans"}
           idle1 == IF keep /\ alive THEN Append(p.idle, c) ELSE p.idle
           cs1 == IF keep
                  THEN IF cs[c] = "closed" THEN cs
                       ELSE IF cs[c] = "unknown" THEN close(cs, c)
                       ELSE [cs EXCEPT ![c] = "idle"]
                  ELSE close(cs, c)
       IN IF key \notin DOMAIN p.used
          THEN [raised |-> TRUE, pool |-> [p EXCEPT !.idle = idle1], conns |-> cs1]
          ELSE [raised |-> FALSE,
                pool |-> [p EXCEPT !.idle = idle1,
                                   !.used = DictDel(p.used, key),
                                   !.rused = DictDel(p.rused, c)],
                conns |-> cs1]

\* ------------------------------------------------ return_db_connection
\* return_db_connection without the rollback before the hand-back
return_db_connection_norollback(cp, p, cs, c) ==
  IF c = None
  THEN [pool |-> p, conns |-> cs, ops |-> <<>>]
  ELSE IF cp # "None"
       THEN LET pt == putconn(p, cs, c)
            IN IF pt.raised
               THEN [pool |-> pt.pool, conns |-> close(pt.conns, c), ops |-> <<"putconn", "close">>]
               ELSE [pool |-> pt.pool, conns |-> pt.conns, ops |-> <<"putconn">>]
       ELSE [pool |-> p, conns |-> close(cs, c), ops |-> <<"close">>]

\* return_db_connection that does not close when the hand-back fails
return_db_connection_leak(cp, p, cs, c) ==
  IF c = None
  THEN [pool |-> p, conns |-> cs, ops |-> <<>>]
  ELSE LET rb == rollback(cs, c)
       IN IF cp # "None"
          THEN LET pt == putconn(p, rb.conns, c)
               IN [pool |-> pt.pool, conns |-> pt.conns, ops |-> <<"rollback", "putconn">>]
          ELSE [pool |-> p, conns |-> close(rb.conns, c), ops |-> <<"rollback", "close">>]

\* The new pool and connections, and the operations issued on conn, in order.
return_db_connection(cp, p, cs, c) ==
  IF c = None
  THEN [pool |-> p, conns |-> cs, ops |-> <<>>]
  ELSE LET rb == rollback(cs, c)
       IN IF cp # "None"
          THEN LET pt == putconn(p, rb.conns, c)
               IN IF pt.raised
                  THEN [pool |-> pt.pool, conns |-> close(pt.conns, c),
                        ops |-> <<"rollback", "putconn", "close">>]
                  ELSE [pool |-> pt.pool, conns |-> pt.conns,
                        ops |-> <<"rollback", "putconn">>]
          ELSE [pool |-> p, conns |-> close(rb.conns, c),
                ops |-> <<"rollback", "close">>]

\* the calls inside return_db_connection that can be made to fail
Faults == {"rollback", "putconn", "close"}

\* conn.rollback() that also raises when it is in f
rollback_f(cs, c, f) ==
  IF "rollback" \in f THEN [raised |-> TRUE, conns |-> close(cs, c)] ELSE rollback(cs, c)

\* connection_pool.putconn(conn) that also raises, before it has done
\* anything, when it is in f
putconn_f(p, cs, c, f) ==
  IF "putconn" \in f THEN [raised |-> TRUE, pool |-> p, conns |-> cs] ELSE putconn(p, cs, c)

\* conn.close() that raises and leaves the connection as it is when it is in f
close_f(cs, c, f) ==
  IF "close" \in f THEN [raised |-> TRUE, conns |-> cs]
  ELSE [raised |-> FALSE, conns |-> close(cs, c)]

\* return_db_connection without the outer try: the close of degraded mode is
\* unguarded
return_db_connection_f_unguarded(cp, p, cs, c, f) ==
  IF c = None
  THEN [pool |-> p, conns |-> cs, ops |-> <<>>, raised |-> FALSE]
  ELSE LET rb == rollback_f(cs, c, f)
       IN IF cp # "None"
          THEN LET pt == putconn_f(p, rb.conns, c, f)
               IN IF pt.raised
                  THEN [pool |-> pt.pool, conns |-> close_f(pt.conns, c, f).conns,
                        ops |-> <<"rollback", "putconn", "close">>, raised |-> FALSE]
                  ELSE [pool |-> pt.pool, conns |-> pt.conns,
                        ops |-> <<"rollback", "putconn">>, raised |-> FALSE]
          ELSE LET cl == close_f(rb.conns, c, f)
               IN [pool |-> p, conns |-> cl.conns, ops |-> <<"rollback", "close">>,
                   raised |-> cl.raised]

\* return_db_connection with the calls in f failing: the exception of the
\* rollback is swallowed (120), that of putconn leads to a close whose own
\* exception is swallowed (128-133), and that of the degraded-mode close
\* (135) reaches the outer except, which closes again and swallows (138-144).
\* raised: an exception leaves the function.
return_db_connection_f(cp, p, cs, c, f) ==
  IF c = None
  THEN [pool |-> p, conns |-> cs, ops |-> <<>>, raised |-> FALSE]
  ELSE LET rb == rollback_f(cs, c, f)
       IN IF cp # "None"
          THEN LET pt == putconn_f(p, rb.conns, c, f)
               IN IF pt.raised
                  THEN [pool |-> pt.pool, conns |-> close_f(pt.conns, c, f).conns,
                        ops |-> <<"rollback", "putconn", "close">>, raised |-> FALSE]
                  ELSE [pool |-> pt.pool, conns |-> pt.conns,
                        ops |-> <<"rollback", "putconn">>, raised |-> FALSE]
          ELSE LET cl == close_f(rb.conns, c, f)
               IN IF cl.raised
                  THEN [pool |-> p, conns |-> close_f(cl.conns, c, f).conns,
                        ops |-> <<"rollback", "close", "close">>, raised |-> FALSE]
                  ELSE [pool |-> p, conns |-> cl.conns,
                        ops |-> <<"rollback", "close">>, raised |-> FALSE]

\* ------------------------------------------------------------- threads
Threads == DOMAIN th

ThreadInit ==
  [pc |-> "idle", kind |-> "none", retries |-> 0, delay |-> 0, attempt |-> 0,
   conn |-> None, key |-> None, waited |-> 0, cause |-> "none", tries |-> 0,
   direct |-> FALSE, tmo |-> 0, err |-> [attempts |-> 0, cause |-> "none"],
   status |-> 0, ops |-> <<>>, was |-> "none", releases |-> 0,
   result |-> [connected |-> FALSE, error |-> "none", pool_status |-> "none"]]

\* handlers that close the connection themselves, and the one that releases it
ClosingHandlers == {"login", "get_categories"}

Handlers == ClosingHandlers \cup {"register"}

\* psycopg2.connect failures
ConnectErrors == {"OperationalError: timeout expired", "OperationalError: connection refused"}

PoolExhausted == "PoolError: connection pool exhausted"

\* ------------------------------------------- initialize_connection_pool
initialize_connection_pool ==
  /\ ~loaded
  /\ loaded' = TRUE
  /\ \/ /\ connection_pool' = "SimpleConnectionPool"
        /\ pool' = NewPool
        /\ conns' = [conns EXCEPT ![1] = "idle"]
     \/ /\ connection_pool' = "None"
        /\ pool' = NoPool
        /\ conns' = conns
  /\ UNCHANGED <<authvars, th, handles, started, response>>

\* ---------------------------------------------------- get_db_connection
\* the attempt that calls getconn without looking at connection_pool
TryPool_unchecked(t) ==
  /\ th[t].pc = "try"
  /\ th[t].attempt < th[t].retries
  /\ pool' = [pool EXCEPT !.keys = @ + 1]
  /\ th' = [th EXCEPT ![t].pc = "getconn", ![t].direct = FALSE, ![t].tries = @ + 1]
  /\ UNCHANGED <<authvars, connection_pool, conns, handles, started, loaded, response>>

\* attempt in range(retries), pool present: getconn starts with
\* self._keys += 1
TryPool(t) ==
  /\ th[t].pc = "try"
  /\ th[t].attempt < th[t].retries
  /\ connection_pool # "None"
  /\ pool' = [pool EXCEPT !.keys = @ + 1]
  /\ th' = [th EXCEPT ![t].pc = "getconn", ![t].direct = FALSE, ![t].tries = @ + 1]
  /\ UNCHANGED <<authvars, connection_pool, conns, handles, started, loaded, response>>

\* return self._keys, and the rest of _getconn up to psycopg2.connect
GetConn(t) ==
  /\ th[t].pc = "getconn"
  /\ LET key == pool.keys
         b == getconn_branch(pool, key)
         n == Len(pool.idle)
     IN /\ pool' = IF b = "pop"
                   THEN lease([pool EXCEPT !.idle = SubSeq(pool.idle, 1, n - 1)], key, pool.idle[n])
                   ELSE pool
        /\ th' = [th EXCEPT ![t].key = key,
                            ![t].pc = CASE b = "have" -> "timeout"
                                        [] b = "pop" -> "timeout"
                                        [] b = "exhausted" -> "failed"
                                        [] OTHER -> "pool_connect",
                            ![t].conn = CASE b = "have" -> pool.used[key]
                                          [] b = "pop" -> pool.idle[n]
                                          [] OTHER -> None,
                            ![t].cause = IF b = "exhausted" THEN PoolExhausted ELSE @]
  /\ UNCHANGED <<authvars, connection_pool, conns, handles, started, loaded, response>>

\* _connect(key): psycopg2.connect, then the lease is recorded
PoolConnect(t) ==
  /\ th[t].pc = "pool_connect"
  /\ \/ /\ FreshConn # None
        /\ conns' = [conns EXCEPT ![FreshConn] = "idle"]
        /\ pool' = lease(pool, th[t].key, FreshConn)
        /\ th' = [th EXCEPT ![t].pc = "timeout", ![t].conn = FreshConn]
     \/ /\ \E e \in ConnectErrors :
             th' = [th EXCEPT ![t].pc = "failed", ![t].cause = e]
        /\ UNCHANGED <<authvars, conns, pool>>
  /\ UNCHANGED <<authvars, connection_pool, handles, started, loaded, response>>

\* SET statement_timeout = 30000 on the pooled connection; a failure is logged
SetTimeout(t) ==
  /\ th[t].pc = "timeout"
  /\ LET ex == execute(conns, th[t].conn)
     IN /\ conns' = ex.conns
        /\ th' = [th EXCEPT ![t].pc = "acquired",
                            ![t].tmo = IF ex.raised THEN -1 ELSE StatementTimeoutMs]
  /\ UNCHANGED <<authvars, connection_pool, pool, handles, started, loaded, response>>

\* an attempt that fails at once when there is no pool
TryDirect_nofallback(t) ==
  /\ th[t].pc = "try"
  /\ th[t].attempt < th[t].retries
  /\ connection_pool = "None"
  /\ th' = [th EXCEPT ![t].pc = "failed", ![t].cause = "pool unavailable",
                      ![t].direct = FALSE, ![t].tries = @ + 1]
  /\ UNCHANGED <<authvars, connection_pool, pool, conns, handles, started, loaded, response>>

\* a direct attempt that sets the pool up again once the store answers
TryDirect_reinit(t) ==
  /\ th[t].pc = "try"
  /\ th[t].attempt < th[t].retries
  /\ connection_pool = "None"
  /\ \/ /\ FreshConn # None
        /\ conns' = [conns EXCEPT ![FreshConn] = "idle"]
        /\ connection_pool' = "SimpleConnectionPool"
        /\ th' = [th EXCEPT ![t].pc = "acquired", ![t].conn = FreshConn,
                            ![t].direct = TRUE, ![t].tries = @ + 1]
     \/ /\ \E e \in ConnectErrors :
             th' = [th EXCEPT ![t].pc = "failed", ![t].cause = e,
                                 ![t].direct = TRUE, ![t].tries = @ + 1]
        /\ UNCHANGED <<conns, connection_pool>>
  /\ UNCHANGED <<authvars, pool, handles, started, loaded, response>>

\* attempt in range(retries), no pool: psycopg2.connect
TryDirect(t) ==
  /\ th[t].pc = "try"
  /\ th[t].attempt < th[t].retries
  /\ connection_pool = "None"
  /\ \/ /\ FreshConn # None
        /\ conns' = [conns EXCEPT ![FreshConn] = "idle"]
        /\ th' = [th EXCEPT ![t].pc = "acquired", ![t].conn = FreshConn,
                            ![t].direct = TRUE, ![t].tries = @ + 1]
     \/ /\ \E e \in ConnectErrors :
             th' = [th EXCEPT ![t].pc = "failed", ![t].cause = e,
                                 ![t].direct = TRUE, ![t].tries = @ + 1]
        /\ conns' = conns
  /\ UNCHANGED <<authvars, connection_pool, pool, handles, started, loaded, response>>

\* range(retries) is used up without an attempt having returned or raised
\* (retries <= 0): the function falls off its end, which returns None
RangeExhausted(t) ==
  /\ th[t].pc = "try"
  /\ ~(th[t].attempt < th[t].retries)
  /\ th' = [th EXCEPT ![t].pc = "acquired", ![t].conn = None]
  /\ UNCHANGED <<authvars, connection_pool, pool, conns, handles, started, loaded, response>>

\* the same wait after every failed attempt
wait_time_flat(delay, attempt) == delay

\* the wait counted from the loop index instead of the attempt number
wait_time_from_zero(delay, attempt) == delay * attempt

\* wait_time = delay * (attempt + 1)
wait_time(delay, attempt) == delay * (attempt + 1)

\* gives up one attempt early
not_last_attempt_early(attempt, retries) == attempt < retries - 2

\* a wait follows this failed attempt
not_last_attempt(attempt, retries) == attempt < retries - 1

\* error_msg: the retries and str(e) of the exception just caught
error_msg(retries, e) == [attempts |-> retries, cause |-> e]

\* except Exception as e: sleep and go round again, or raise after the last
AttemptFailed(t) ==
  /\ th[t].pc = "failed"
  /\ IF not_last_attempt(th[t].attempt, th[t].retries)
     THEN th' = [th EXCEPT ![t].pc = "try",
                           ![t].waited = @ + wait_time(th[t].delay, th[t].attempt),
                           ![t].attempt = @ + 1]
     ELSE th' = [th EXCEPT ![t].pc = "raised",
                           ![t].err = error_msg(th[t].retries, th[t].cause)]
  /\ UNCHANGED <<authvars, connection_pool, pool, conns, handles, started, loaded, response>>

\* ------------------------------------------------------ request handlers
\* the exception a failed query raises
QueryError == "OperationalError: server closed the connection unexpectedly"

\* the 'error' of a response body: a fixed text, followed by str(e) of the
\* exception caught where the handler formats it in (str_e is empty otherwise)
NoError == [text |-> "none", str_e |-> {}]

Fixed(text) == [text |-> text, str_e |-> {}]

Formatted(text, e) == [text |-> text, str_e |-> {e}]

\* f'Login failed: {str(e)}' and its likes
failed_prefix(k) ==
  CASE k = "login" -> "Login failed: "
    [] k = "register" -> "Registration failed: "
    [] OTHER -> "Failed to retrieve categories: "

\* A request reaches the handler's get_db_connection call (its validation
\* passed): register passes retries=3, delay=2, the others take the defaults.
StartRequest(t, k) ==
  /\ loaded
  /\ th[t].pc = "idle"
  /\ started < MaxRequests
  /\ started' = started + 1
  /\ th' = [th EXCEPT ![t] = [ThreadInit EXCEPT !.pc = "try", !.kind = k,
                                                !.retries = DefaultRetries,
                                                !.delay = DefaultDelay]]
  /\ UNCHANGED <<authvars, connection_pool, pool, conns, handles, loaded, response>>

\* login, get_categories: the query, then cursor.close(); conn.close(); an
\* exception is answered 500 and leaves the connection as it is
HandlerQuery(t) ==
  /\ th[t].pc = "acquired"
  /\ th[t].kind \in ClosingHandlers
  /\ LET ex == execute(conns, th[t].conn)
     IN \/ /\ ~ex.raised
           /\ conns' = close(ex.conns, th[t].conn)
           /\ response' = [kind |-> th[t].kind, status |-> 200, error |-> NoError]
        \/ /\ conns' = ex.conns
           /\ response' = [kind |-> th[t].kind, status |-> 500,
                           error |-> Formatted(failed_prefix(th[t].kind), QueryError)]
  /\ th' = [th EXCEPT ![t] = ThreadInit]
  /\ UNCHANGED <<authvars, connection_pool, pool, handles, started, loaded>>

\* register: INSERT and commit (201), IntegrityError (400) or another
\* exception (500); the finally clause follows in each case
RegisterInsert(t) ==
  /\ th[t].pc = "acquired"
  /\ th[t].kind = "register"
  /\ LET ex == execute(conns, th[t].conn)
     IN \/ /\ ~ex.raised
           /\ conns' = commit(ex.conns, th[t].conn)
           /\ th' = [th EXCEPT ![t].pc = "finally", ![t].status = 201]
        \/ /\ ~ex.raised
           /\ conns' = ex.conns
           /\ th' = [th EXCEPT ![t].pc = "finally", ![t].status = 400]
        \/ /\ conns' = ex.conns
           /\ th' = [th EXCEPT ![t].pc = "finally", ![t].status = 500]
  /\ UNCHANGED <<authvars, connection_pool, pool, handles, started, loaded, response>>

\* register: finally: if conn: return_db_connection(conn)
RegisterFinally(t) ==
  /\ th[t].pc = "finally"
  /\ LET r == return_db_connection(connection_pool, pool, conns, th[t].conn)
     IN /\ pool' = r.pool
        /\ conns' = r.conns
  /\ response' = [kind |-> th[t].kind, status |-> th[t].status,
                  error |-> CASE th[t].status = 400 -> Fixed("Email already registered")
                              [] th[t].status = 500 -> Formatted(failed_prefix(th[t].kind), QueryError)
                              [] OTHER -> NoError]
  /\ th' = [th EXCEPT ![t] = ThreadInit]
  /\ UNCHANGED <<authvars, connection_pool, handles, started, loaded>>

\* get_db_connection raised: register answers 503 ('Failed to connect' is in
\* the message), the other handlers 500
HandlerUnavailable(t) ==
  /\ th[t].pc = "raised"
  /\ th[t].kind \in Handlers
  /\ response' = IF th[t].kind = "register"
                 THEN [kind |-> th[t].kind, status |-> 503,
                       error |-> Fixed("Database temporarily unavailable. Please try again in a moment.")]
                 ELSE [kind |-> th[t].kind, status |-> 500,
                       error |-> Formatted(failed_prefix(th[t].kind), th[t].err)]
  /\ th' = [th EXCEPT ![t] = ThreadInit]
  /\ UNCHANGED <<authvars, connection_pool, pool, conns, handles, started, loaded>>

\* ------------------------------------------------- callers of utils/db.py
\* between calls
Resting == {"idle", "acquired", "raised", "released"}

\* get_db_connection(retries=r, delay=d)
CallGet(t, r, d) ==
  /\ loaded
  /\ th[t].pc \in Resting
  /\ started < MaxCalls
  /\ started' = started + 1
  /\ th' = [th EXCEPT ![t] = [ThreadInit EXCEPT !.pc = "try", !.kind = "api",
                                                !.retries = r, !.delay = d]]
  /\ handles' = IF th[t].pc = "acquired" THEN handles \cup {th[t].conn} ELSE handles
  /\ UNCHANGED <<authvars, connection_pool, pool, conns, loaded, response>>

\* return_db_connection(c): c is None or any connection the caller has seen
CallReturn(t, c) ==
  /\ loaded
  /\ th[t].pc \in Resting
  /\ started < MaxCalls
  /\ started' = started + 1
  /\ LET hs == IF th[t].pc = "acquired" THEN handles \cup {th[t].conn} ELSE handles
         r == return_db_connection(connection_pool, pool, conns, c)
     IN /\ c \in hs \cup {None}
        /\ handles' = hs
        /\ pool' = r.pool
        /\ conns' = r.conns
        /\ th' = [th EXCEPT ![t] = [ThreadInit EXCEPT !.pc = "released", !.kind = "api",
                                                      !.conn = c, !.ops = r.ops,
                                                      !.was = IF c = None THEN "none" ELSE conns[c]]]
  /\ UNCHANGED <<authvars, connection_pool, loaded, response>>

\* return_db_connection(c) while the calls in f fail; the caller is left
\* with an exception (raised) or with the call returned (released)
CallRelease(t, c, f) ==
  /\ loaded
  /\ th[t].pc \in Resting
  /\ started < MaxCalls
  /\ started' = started + 1
  /\ LET hs == IF th[t].pc = "acquired" THEN handles \cup {th[t].conn} ELSE handles
         r == return_db_connection_f(connection_pool, pool, conns, c, f)
     IN /\ c \in hs \cup {None}
        /\ handles' = hs
        /\ pool' = r.pool
        /\ conns' = r.conns
        /\ th' = [th EXCEPT ![t] = [ThreadInit EXCEPT !.pc = IF r.raised THEN "raised" ELSE "released",
                                                      !.kind = "release",
                                                      !.conn = c, !.ops = r.ops,
                                                      !.was = IF c = None THEN "none" ELSE conns[c]]]
  /\ UNCHANGED <<authvars, connection_pool, loaded, response>>

\* connections the caller holds a reference to
Known(t) == handles \cup (IF th[t].pc = "acquired" /\ th[t].conn # None THEN {th[t].conn} ELSE {})

InIdle(p, c) == \E i \in 1..Len(p.idle) : p.idle[i] = c

\* the caller writes on a connection it has not released
ApiWrite(t, c) ==
  /\ th[t].pc \in Resting
  /\ c \in Known(t)
  /\ ~InIdle(pool, c)
  /\ conns[c] = "idle"
  /\ conns' = execute(conns, c).conns
  /\ UNCHANGED <<authvars, connection_pool, pool, th, handles, started, loaded, response>>

\* the caller closes a connection it has not released (as login does)
ApiClose(t, c) ==
  /\ th[t].pc \in Resting
  /\ c \in Known(t)
  /\ ~InIdle(pool, c)
  /\ conns[c] \in {"idle", "intrans"}
  /\ conns' = close(conns, c)
  /\ UNCHANGED <<authvars, connection_pool, pool, th, handles, started, loaded, response>>

\* the caller opens a connection of its own (app.py get_db_connection)
ForeignConnect(t) ==
  /\ loaded
  /\ th[t].pc \in Resting
  /\ FreshConn # None
  /\ conns' = [conns EXCEPT ![FreshConn] = "idle"]
  /\ handles' = handles \cup {FreshConn}
  /\ UNCHANGED <<authvars, connection_pool, pool, th, started, loaded, response>>

\* the server ends a session: the connection object does not know yet
ServerDrop(c) ==
  /\ conns[c] \in {"idle", "intrans"}
  /\ conns' = [conns EXCEPT ![c] = "unknown"]
  /\ UNCHANGED <<authvars, connection_pool, pool, th, handles, started, loaded, response>>

\* ------------------------------------------------------ test_connection
\* test_connection(): conn = None; conn = get_db_connection(retries=3, delay=2)
CallTest(t) ==
  /\ loaded
  /\ th[t].pc \in {"idle", "returned"}
  /\ started < MaxCalls
  /\ started' = started + 1
  /\ th' = [th EXCEPT ![t] = [ThreadInit EXCEPT !.pc = "try", !.kind = "test_connection",
                                                !.retries = 3, !.delay = 2]]
  /\ UNCHANGED <<authvars, connection_pool, pool, conns, handles, loaded, response>>

\* 'pool_status': 'active' if connection_pool else 'inactive'
pool_status(cp) == IF cp # "None" THEN "active" ELSE "inactive"

\* the probe that releases the connection only when the queries succeeded
TestProbe_releaseonsuccess(t) ==
  /\ th[t].pc = "acquired"
  /\ th[t].kind = "test_connection"
  /\ LET ex == execute(conns, th[t].conn)
     IN \/ /\ ~ex.raised
           /\ conns' = ex.conns
           /\ th' = [th EXCEPT ![t].pc = "finally",
                               ![t].result = [connected |-> TRUE, error |-> "none",
                                              pool_status |-> pool_status(connection_pool)]]
        \/ /\ conns' = ex.conns
           /\ th' = [th EXCEPT ![t].pc = "returned",
                               ![t].result = [connected |-> FALSE, error |-> "query failed",
                                              pool_status |-> pool_status(connection_pool)]]
  /\ UNCHANGED <<authvars, connection_pool, pool, handles, started, loaded, response>>

\* the two probe queries: both succeed (return at line 172), or one raises
\* (the except clause at 178); the finally clause follows in each case
TestProbe(t) ==
  /\ th[t].pc = "acquired"
  /\ th[t].kind = "test_connection"
  /\ LET ex == execute(conns, th[t].conn)
     IN \/ /\ ~ex.raised
           /\ conns' = ex.conns
           /\ th' = [th EXCEPT ![t].pc = "finally",
                               ![t].result = [connected |-> TRUE, error |-> "none",
                                              pool_status |-> pool_status(connection_pool)]]
        \/ /\ conns' = ex.conns
           /\ th' = [th EXCEPT ![t].pc = "finally",
                               ![t].result = [connected |-> FALSE, error |-> "query failed",
                                              pool_status |-> pool_status(connection_pool)]]
  /\ UNCHANGED <<authvars, connection_pool, pool, handles, started, loaded, response>>

\* get_db_connection raised: the except clause builds the result; conn is
\* still None, so the finally clause releases nothing
TestExcept(t) ==
  /\ th[t].pc = "raised"
  /\ th[t].kind = "test_connection"
  /\ th' = [th EXCEPT ![t].pc = "returned",
                      ![t].result = [connected |-> FALSE, error |-> th[t].err.cause,
                                     pool_status |-> pool_status(connection_pool)]]
  /\ UNCHANGED <<authvars, connection_pool, pool, conns, handles, started, loaded, response>>

\* finally: if conn: return_db_connection(conn)
TestFinally(t) ==
  /\ th[t].pc = "finally"
  /\ th[t].kind = "test_connection"
  /\ LET r == return_db_connection(connection_pool, pool, conns, th[t].conn)
     IN /\ pool' = r.pool
        /\ conns' = r.conns
        /\ th' = [th EXCEPT ![t].pc = "returned", ![t].ops = r.ops,
                            ![t].releases = th[t].releases + 1]
  /\ UNCHANGED <<authvars, connection_pool, handles, started, loaded, response>>

\* --------------------------------------------------------------- PyJWT
\* The characters of a header value: a space, or a run of other characters.
Word(w) == [word |-> w]

Space == Word(" ")

\* str.split(" "): the runs between single spaces, empty runs included
RECURSIVE split(_)
split(s) ==
  IF s = <<>> THEN << <<>> >>
  ELSE LET r == split(Tail(s))
       IN IF Head(s) = Space THEN << <<>> >> \o r
          ELSE << <<Head(s)>> \o r[1] >> \o Tail(r)

\* timegm(dt.utctimetuple()): a datetime as whole seconds, the fraction dropped
timegm(dt) == dt \div Resolution

\* the HMAC of a payload under a key
sign(payload, key, alg) == [key |-> key, alg |-> alg, over |-> payload]

\* jwt.encode(payload, key, algorithm): exp and iat become whole seconds
jwt_encode(payload, key, alg) ==
  LET p == [payload EXCEPT !.exp = timegm(@), !.iat = timegm(@)]
  IN [payload |-> p, sig |-> sign(p, key, alg)]

\* jwt.decode that does not look at exp
jwt_decode_noexp(token, key, alg, t) ==
  IF Len(token) # 1 \/ "payload" \notin DOMAIN token[1]
  THEN [error |-> "DecodeError", payload |-> EmptyDict]
  ELSE IF token[1].sig.alg # alg
  THEN [error |-> "InvalidAlgorithmError", payload |-> EmptyDict]
  ELSE IF token[1].sig # sign(token[1].payload, key, alg)
  THEN [error |-> "InvalidSignatureError", payload |-> EmptyDict]
  ELSE [error |-> "none", payload |-> token[1].payload]

\* jwt.decode(token, key, algorithms=[alg]) at time t: the signature first,
\* then exp (expired when exp <= now) and iat
jwt_decode(token, key, alg, t) ==
  IF Len(token) # 1 \/ "payload" \notin DOMAIN token[1]
  THEN [error |-> "DecodeError", payload |-> EmptyDict]
  ELSE IF token[1].sig.alg # alg
  THEN [error |-> "InvalidAlgorithmError", payload |-> EmptyDict]
  ELSE IF token[1].sig # sign(token[1].payload, key, alg)
  THEN [error |-> "InvalidSignatureError", payload |-> EmptyDict]
  ELSE IF token[1].payload.exp * Resolution <= t
  THEN [error |-> "ExpiredSignatureError", payload |-> EmptyDict]
  ELSE IF token[1].payload.iat * Resolution > t
  THEN [error |-> "ImmatureSignatureError", payload |-> EmptyDict]
  ELSE [error |-> "none", payload |-> token[1].payload]

\* ------------------------------------------------------------- requests
NoRequest ==
  [pc |-> "idle", endpoint |-> "none", headers |-> EmptyDict, attrs |-> EmptyDict,
   status |-> 0, error |-> "none", at |-> 0]

\* token = auth_header.split(" ")[1], IndexError when there is no second
\* part; token stays None (here the empty string) without the header
extract(headers) ==
  IF "Authorization" \notin DOMAIN headers
  THEN [raised |-> FALSE, token |-> <<>>]
  ELSE LET parts == split(headers.Authorization)
       IN IF Len(parts) < 2
          THEN [raised |-> TRUE, token |-> <<>>]
          ELSE [raised |-> FALSE, token |-> parts[2]]

\* what a gate leaves for the wrapped operation, or the answer in its place
Answer(status, error) == [invoke |-> FALSE, status |-> status, error |-> error, attrs |-> EmptyDict]

Invoke(attrs) == [invoke |-> TRUE, status |-> 0, error |-> "none", attrs |-> attrs]

\* request.user_id = payload['user_id'] with every token's identity replaced
\* by one fixed identity
inject_fixed(payload) == [user_id |-> 1, user_email |-> <<"email", 1>>]

\* request.user_id = payload['user_id']; request.user_email = payload['email']
inject(payload) == [user_id |-> payload.user_id, user_email |-> payload.email]

\* ------------------------------------------------------- token_required
\* decorated(): the 401 answer, or the attributes set on the request before
\* f(*args, **kwargs) is called
token_required(headers, t, cfg) ==
  LET x == extract(headers)
      d == jwt_decode(x.token, cfg.JWT_SECRET_KEY, cfg.JWT_ALGORITHM, t)
  IN IF x.raised
     THEN Answer(401, "Invalid authorization header format. Use: Bearer <token>")
     ELSE IF x.token = <<>>
     THEN Answer(401, "Authentication token is missing")
     ELSE IF d.error = "ExpiredSignatureError"
     THEN Answer(401, "Token has expired. Please login again.")
     ELSE IF d.error # "none"
     THEN Answer(401, "Invalid token. Authentication failed.")
     ELSE IF {"user_id", "email"} \subseteq DOMAIN d.payload
     THEN Invoke(inject(d.payload))
     ELSE Answer(401, "Token verification failed: KeyError")

\* ------------------------------------------------------- optional_token
\* optional_token that reads the payload without verifying the token
optional_token_unverified(headers, t, cfg) ==
  LET x == extract(headers)
  IN IF ~x.raised /\ Len(x.token) = 1 /\ "payload" \in DOMAIN x.token[1]
     THEN Invoke(inject(x.token[1].payload))
     ELSE Invoke(EmptyDict)

\* decorated(): every failure is passed over and f is called
optional_token(headers, t, cfg) ==
  LET x == extract(headers)
      d == jwt_decode(x.token, cfg.JWT_SECRET_KEY, cfg.JWT_ALGORITHM, t)
  IN IF x.raised \/ x.token = <<>> \/ d.error # "none"
     THEN Invoke(EmptyDict)
     ELSE IF "user_id" \notin DOMAIN d.payload
     THEN Invoke(EmptyDict)
     ELSE IF "email" \notin DOMAIN d.payload
     THEN Invoke([user_id |-> d.payload.user_id])
     ELSE Invoke(inject(d.payload))

\* --------------------------------------------------- GET /auth/verify
verify_token(headers, t, cfg) ==
  LET x == extract(headers)
      d == jwt_decode(x.token, cfg.JWT_SECRET_KEY, cfg.JWT_ALGORITHM, t)
  IN IF x.raised
     THEN Answer(401, "Invalid authorization header format")
     ELSE IF x.token = <<>>
     THEN Answer(401, "Token is missing")
     ELSE IF d.error = "ExpiredSignatureError"
     THEN Answer(401, "Token has expired")
     ELSE IF d.error # "none"
     THEN Answer(401, "Invalid token")
     ELSE IF {"user_id", "email", "exp"} \subseteq DOMAIN d.payload
     THEN Answer(200, "none")
     ELSE Answer(401, "Token verification failed: KeyError")

\* -------------------------------------------------- POST /auth/logout
\* a logout that replaces the signing key
logout_rotating(cfg) == [cfg EXCEPT !.JWT_SECRET_KEY = "rotated"]

\* logout(): returns its message; the configuration the server goes on with
logout(cfg) == cfg

\* ------------------------------------------------------ what clients send
Users == 1..NumUsers

Email(u) == <<"email", u>>

\* an issued token with its expiry moved on, the signature left as it was
tamper(tk) == [tk EXCEPT !.payload.exp = @ + MaxNow]

\* tokens made without the server's key: another key, and no key at all
Forged ==
  LET p == [user_id |-> 1, email |-> Email(1), exp |-> MaxNow, iat |-> 0]
  IN {[payload |-> p, sig |-> sign(p, "attacker-key", "HS256")],
      [payload |-> p, sig |-> sign(p, "", "none")]}

Credentials == tokens \cup {tamper(tk) : tk \in tokens} \cup Forged \cup {Word("abc")}

\* Authorization header values: empty, one part, an empty second part, each
\* credential after Bearer and after Basic, and each issued token after two
\* spaces and alone
HeaderValues ==
  {<<>>, <<Word("Bearer")>>, <<Word("Bearer"), Space>>}
    \cup {<<Word("Bearer"), Space, c>> : c \in Credentials}
    \cup {<<Word("Basic"), Space, c>> : c \in Credentials}
    \cup {<<Word("Bearer"), Space, Space, c>> : c \in tokens}
    \cup {<<c>> : c \in tokens}

RequestHeaders == {EmptyDict} \cup {[Authorization |-> v] : v \in HeaderValues}

\* the routes behind token_required that the model follows
Protected == {"get_categories", "get_current_user"}

\* ------------------------------------------------------- request steps
\* time passes
Tick ==
  /\ now < MaxNow
  /\ now' = now + 1
  /\ UNCHANGED <<dbvars, tokens, issued, request, Config>>

\* login, credentials accepted: the token for user u's id and email
Login(u) ==
  /\ LET token == jwt_encode([user_id |-> u, email |-> Email(u),
                              exp |-> now + Config.JWT_ACCESS_TOKEN_EXPIRES * Resolution,
                              iat |-> now],
                             Config.JWT_SECRET_KEY, Config.JWT_ALGORITHM)
     IN /\ tokens' = tokens \cup {token}
        /\ issued' = DictSet(issued, token, now)
  /\ UNCHANGED <<dbvars, now, request, Config>>

Free(t) == request[t].pc \in {"idle", "done"}

Gated(t, ep, h, g) ==
  request' = [request EXCEPT ![t] =
                [pc |-> IF g.invoke THEN "wrapped" ELSE "done", endpoint |-> ep,
                 headers |-> h, attrs |-> g.attrs, status |-> g.status,
                 error |-> g.error, at |-> now]]

\* a request to a route behind @token_required
ProtectedRequest(t, ep, h) ==
  /\ Free(t)
  /\ Gated(t, ep, h, token_required(h, now, Config))
  /\ UNCHANGED <<dbvars, now, tokens, issued, Config>>

\* a request to a route behind @optional_token
OptionalRequest(t, h) ==
  /\ Free(t)
  /\ Gated(t, "public_route", h, optional_token(h, now, Config))
  /\ UNCHANGED <<dbvars, now, tokens, issued, Config>>

\* GET /auth/verify
VerifyRequest(t, h) ==
  /\ Free(t)
  /\ Gated(t, "verify_token", h, verify_token(h, now, Config))
  /\ UNCHANGED <<dbvars, now, tokens, issued, Config>>

\* POST /auth/logout: no gate, the header is not read
LogoutRequest(t, h) ==
  /\ Free(t)
  /\ Gated(t, "logout", h, Answer(200, "none"))
  /\ Config' = logout(Config)
  /\ UNCHANGED <<dbvars, now, tokens, issued>>

\* the wrapped operation runs and answers
WrappedRuns(t) ==
  /\ request[t].pc = "wrapped"
  /\ request' = [request EXCEPT ![t].pc = "done", ![t].status = 200]
  /\ UNCHANGED <<dbvars, now, tokens, issued, Config>>

\* -------------------------------------------------------------- bcrypt
\* the characters passwords are made of, and their UTF-8 bytes
Chars == {"a", "e-acute"}

Utf8(c) == IF c = "a" THEN <<97>> ELSE <<195, 169>>

\* password.encode('utf-8')
RECURSIVE encode(_)
encode(s) == IF s = <<>> THEN <<>> ELSE Utf8(Head(s)) \o encode(Tail(s))

\* the bytes of the password that enter the hash
Prefix(b, n) == SubSeq(b, 1, IF Len(b) < n THEN Len(b) ELSE n)

\* bcrypt releases before 5.0 drop the bytes after the limit without a
\* word; from 5.0 on hashpw raises ValueError for a longer password
Builds == {"truncates", "rejects"}

Raised(e) == [raised |-> e, value |-> <<>>]

Returned(v) == [raised |-> "none", value |-> v]

\* bcrypt.hashpw(password, salt): the digest is the salt and the checksum
\* of the salted password
hashpw(b, salt, build) ==
  IF build = "rejects" /\ Len(b) > bcrypt_limit
  THEN Raised("ValueError")
  ELSE Returned(<<[salt |-> salt, checksum |-> <<Prefix(b, bcrypt_limit), salt>>]>>)

\* bcrypt.checkpw(password, hashed_password): ValueError (invalid salt) for
\* a digest that does not parse
checkpw(b, d, build) ==
  IF Len(d) # 1 \/ "salt" \notin DOMAIN d[1]
  THEN Raised("ValueError")
  ELSE LET h == hashpw(b, d[1].salt, build)
       IN IF h.raised # "none" THEN h ELSE Returned(h.value = d)

\* ------------------------------------------------------ utils/password.py
\* salt = bcrypt.gensalt() is given as an argument
hash_password(password, salt, build) ==
  IF password = <<>>
  THEN Raised("ValueError: Password cannot be empty")
  ELSE hashpw(encode(password), salt, build)

\* verify_password without the try/except around checkpw
verify_password_nocatch(password, password_hash, build) ==
  IF password = <<>> \/ password_hash = <<>>
  THEN Returned(FALSE)
  ELSE checkpw(encode(password), password_hash, build)

verify_password(password, password_hash, build) ==
  IF password = <<>> \/ password_hash = <<>>
  THEN Returned(FALSE)
  ELSE LET c == checkpw(encode(password), password_hash, build)
       IN IF c.raised # "none" THEN Returned(FALSE) ELSE c

\* ------------------------------------------------ callers of password.py
NoCall == [op |-> "none", password |-> <<>>, digest |-> <<>>, result |-> Returned(FALSE)]

\* nothing hashed yet, under bcrypt build b
NoHashes(b) == [bcrypt |-> b, hashed |-> {}, last |-> NoCall]

RECURSIVE Strings(_)
Strings(n) ==
  IF n = 0 THEN {<<>>}
  ELSE Strings(n - 1) \cup {Append(s, c) : s \in Strings(n - 1), c \in Chars}

\* the empty password and every password up to MaxPasswordLen characters
Passwords == Strings(MaxPasswordLen)

\* the digests hash_password has returned
Digests == {h.digest : h \in pw.hashed}

\* digests that do not parse: not a bcrypt string, and one cut short
Malformed == {<<[garbage |-> "not-a-hash"]>>} \cup {<<[checksum |-> d[1].checksum]>> : d \in Digests}

\* hash_password(p): the salt is new at every call
HashPassword(p) ==
  /\ Cardinality(pw.hashed) < MaxHashes
  /\ LET salt == Cardinality(pw.hashed) + 1
         r == hash_password(p, salt, pw.bcrypt)
     IN pw' = [pw EXCEPT !.hashed = IF r.raised = "none"
                                    THEN @ \cup {[password |-> p, digest |-> r.value]}
                                    ELSE @,
                         !.last = [op |-> "hash_password", password |-> p,
                                   digest |-> <<>>, result |-> r]]
  /\ UNCHANGED webvars

\* verify_password(p, d)
VerifyPassword(p, d) ==
  /\ pw' = [pw EXCEPT !.last = [op |-> "verify_password", password |-> p, digest |-> d,
                                result |-> verify_password(p, d, pw.bcrypt)]]
  /\ UNCHANGED webvars

\* ------------------------------------------------ routes/auth_routes.py
\* the characters emails are made of: a letter in both cases, and a blank
EmailChars == {"a", "A", " "}

RECURSIVE EmailStrings(_)
EmailStrings(n) ==
  IF n = 0 THEN {<<>>}
  ELSE EmailStrings(n - 1) \cup {Append(s, c) : s \in EmailStrings(n - 1), c \in EmailChars}

Emails == EmailStrings(MaxEmailLen)

\* str.lower()
lower(s) == [i \in DOMAIN s |-> IF s[i] = "A" THEN "a" ELSE s[i]]

\* str.strip()
RECURSIVE strip(_)
strip(s) ==
  IF s = <<>> THEN s
  ELSE IF Head(s) = " " THEN strip(Tail(s))
  ELSE IF s[Len(s)] = " " THEN strip(SubSeq(s, 1, Len(s) - 1))
  ELSE s

\* validate_email: empty, or a character the pattern does not allow
validate_email(email) ==
  IF email = <<>> THEN "Email is required"
  ELSE IF \E i \in DOMAIN email : email[i] = " " THEN "Invalid email format"
  ELSE "none"

\* validate_password: empty, too short, too long
validate_password(password) ==
  IF password = <<>> THEN "Password is required"
  ELSE IF Len(password) < MinPasswordLen THEN "Password must be at least 6 characters long"
  ELSE IF Len(password) > MaxPasswordLen THEN "Password must not exceed 100 characters"
  ELSE "none"

\* SELECT ... FROM users WHERE email = %s
users_by_email(st, email) == {u \in st.users : u.email = email}

\* what a handler hands back: the answer, the store, the get_db_connection
\* calls it made, the token it issued (<<>> when none) and the digest it made
Outcome(status, error, st, calls, token, digest) ==
  [status |-> status, error |-> error, store |-> st, calls |-> calls, token |-> token,
   digest |-> digest]

\* register(): data has email and password (full_name is left out), up says
\* whether get_db_connection(retries=3, delay=2) returns a connection
register(data, st, salt, build, up) ==
  LET email == strip(lower(data.email))
      password == data.password
  IN IF validate_email(email) # "none"
     THEN Outcome(400, Fixed(validate_email(email)), st, 0, <<>>, <<>>)
     ELSE IF validate_password(password) # "none"
     THEN Outcome(400, Fixed(validate_password(password)), st, 0, <<>>, <<>>)
     ELSE LET h == hash_password(password, salt, build)
          IN IF h.raised # "none"
             THEN Outcome(500, Formatted("Registration failed: ", h.raised), st, 0, <<>>, <<>>)
             ELSE IF ~up
             THEN Outcome(503, Fixed("Database temporarily unavailable. Please try again in a moment."),
                          st, 1, <<>>, h.value)
             ELSE IF users_by_email(st, email) # {}
             THEN Outcome(400, Fixed("Email already registered"), st, 1, <<>>, h.value)
             ELSE Outcome(201, NoError,
                          [st EXCEPT !.users = @ \cup {[id |-> Cardinality(st.users) + 1,
                                                        email |-> email,
                                                        password_hash |-> h.value,
                                                        is_active |-> TRUE]}],
                          1, <<>>, h.value)

\* login(): the body, the lookup by the lower-cased and stripped email, the
\* account's state, the password, then the token for the row's id and email
login(data, st, t, cfg, build, up) ==
  IF data = EmptyDict
  THEN Outcome(400, Fixed("Request body is required"), st, 0, <<>>, <<>>)
  ELSE IF "email" \notin DOMAIN data \/ "password" \notin DOMAIN data
  THEN Outcome(400, Fixed("Email and password are required"), st, 0, <<>>, <<>>)
  ELSE LET email == strip(lower(data.email))
           password == data.password
           found == users_by_email(st, email)
       IN IF email = <<>> \/ password = <<>>
          THEN Outcome(400, Fixed("Email and password cannot be empty"), st, 0, <<>>, <<>>)
          ELSE IF ~up
          THEN Outcome(500, Formatted("Login failed: ", error_msg(DefaultRetries, "OperationalError: connection refused")),
                       st, 1, <<>>, <<>>)
          ELSE IF found = {}
          THEN Outcome(401, Fixed("Invalid email or password"), st, 1, <<>>, <<>>)
          ELSE LET user == CHOOSE u \in found : TRUE
               IN IF ~user.is_active
                  THEN Outcome(401, Fixed("Account is deactivated. Please contact support."),
                               st, 1, <<>>, <<>>)
                  ELSE IF ~verify_password(password, user.password_hash, build).value
                  THEN Outcome(401, Fixed("Invalid email or password"), st, 1, <<>>, <<>>)
                  ELSE Outcome(200, NoError, st, 1,
                               <<jwt_encode([user_id |-> user.id, email |-> user.email,
                                             exp |-> t + cfg.JWT_ACCESS_TOKEN_EXPIRES * Resolution,
                                             iat |-> t],
                                            cfg.JWT_SECRET_KEY, cfg.JWT_ALGORITHM)>>,
                               <<>>)

\* the bodies clients send to register and to login
Registrations == {[email |-> e, password |-> p] : e \in Emails, p \in Passwords}

LoginBodies ==
  {EmptyDict} \cup {[email |-> e] : e \in Emails} \cup {[password |-> p] : p \in Passwords}
    \cup Registrations

\* the request as the handler leaves it
Handled(ep, data, o, t) ==
  [pc |-> "done", endpoint |-> ep, headers |-> EmptyDict, attrs |-> EmptyDict,
   status |-> o.status, error |-> o.error, at |-> t, body |-> data, calls |-> o.calls,
   token |-> o.token]

\* POST /auth/register
RegisterRequest(t, data, up) ==
  /\ Free(t)
  /\ started < MaxLoginCalls
  /\ started' = started + 1
  /\ LET o == register(data, store, Cardinality(pw.hashed) + 1, pw.bcrypt, up)
     IN /\ request' = [request EXCEPT ![t] = Handled("register", data, o, now)]
        /\ store' = o.store
        /\ pw' = IF o.digest = <<>> THEN pw
                 ELSE [pw EXCEPT !.hashed = @ \cup {[password |-> data.password,
                                                     digest |-> o.digest]}]
  /\ UNCHANGED <<connection_pool, pool, conns, th, handles, loaded, response,
                 now, tokens, issued, Config>>

\* POST /auth/login
LoginRequest(t, data, up) ==
  /\ Free(t)
  /\ started < MaxLoginCalls
  /\ started' = started + 1
  /\ LET o == login(data, store, now, Config, pw.bcrypt, up)
     IN /\ request' = [request EXCEPT ![t] = Handled("login", data, o, now)]
        /\ tokens' = IF o.token = <<>> THEN tokens ELSE tokens \cup {o.token[1]}
        /\ issued' = IF o.token = <<>> THEN issued ELSE DictSet(issued, o.token[1], now)
  /\ UNCHANGED <<connection_pool, pool, conns, th, handles, loaded, response,
                 now, Config, pw, store>>

\* an administrator deactivates an account: UPDATE users SET is_active = false
Deactivate(u) ==
  /\ u \in store.users
  /\ u.is_active
  /\ store' = [store EXCEPT !.users = (@ \ {u}) \cup {[u EXCEPT !.is_active = FALSE]}]
  /\ UNCHANGED <<layervars, now, tokens, issued, request, Config>>

\* -------------------------------------------- routes/category_routes.py
\* JSON values: a string, a boolean, null
Str(v) == [str |-> v]

Bool(v) == [bool |-> v]

Null == [null |-> TRUE]

\* isinstance(v, str), isinstance(v, bool), not v
is_str(v) == "str" \in DOMAIN v

is_bool(v) == "bool" \in DOMAIN v

falsy(v) == v = Null \/ v = Str("") \/ v = Bool(FALSE)

\* the columns a client can set, and a field the table does not have
Updatable == {"name", "description", "is_active"}

Keys == Updatable \cup {"color"}

ValuesOf(k) ==
  CASE k = "name" -> {Str("Finance"), Str("")}
    [] k = "description" -> {Str("x")}
    [] k = "is_active" -> {Bool(FALSE), Str("yes")}
    [] OTHER -> {Str("red")}

\* request.get_json(): every object over Keys, the empty one included
Absent == [absent |-> TRUE]

Body(fields) == [k \in {x \in Keys : fields[x] # Absent} |-> fields[k]]

CategoryBodies ==
  {Body([name |-> n, description |-> d, is_active |-> a, color |-> c]) :
     n \in ValuesOf("name") \cup {Absent}, d \in ValuesOf("description") \cup {Absent},
     a \in ValuesOf("is_active") \cup {Absent}, c \in ValuesOf("color") \cup {Absent}}

\* the category ids a client asks for: the first row and one that is not there
CategoryIds == {1, 2}

\* validate_category_data(data, is_update)
validate_category_data(data, is_update) ==
  IF ~is_update /\ "name" \notin DOMAIN data
  THEN "Field 'name' is required"
  ELSE IF "name" \in DOMAIN data /\ (falsy(data.name) \/ ~is_str(data.name))
  THEN "Field 'name' must be a non-empty string"
  ELSE IF "description" \in DOMAIN data /\ data.description # Null /\ ~is_str(data.description)
  THEN "Field 'description' must be a string"
  ELSE IF "is_active" \in DOMAIN data /\ data.is_active # Null /\ ~is_bool(data.is_active)
  THEN "Field 'is_active' must be a boolean"
  ELSE "none"

\* data.get(k, default)
get(data, k, default) == IF k \in DOMAIN data THEN data[k] ELSE default

\* the rows another category with this name: the unique constraint on name
name_taken(st, name, id) == \E c \in st.categories : c.name = name /\ c.id # id

\* create_category that validates the body as an update
create_category_asupdate(data, st, t, up) ==
  IF data = EmptyDict
  THEN Outcome(400, Fixed("Request body is required"), st, 0, <<>>, <<>>)
  ELSE IF validate_category_data(data, TRUE) # "none"
  THEN Outcome(400, Fixed(validate_category_data(data, TRUE)), st, 0, <<>>, <<>>)
  ELSE IF ~up
  THEN Outcome(500, Formatted("Failed to create category: ",
                              error_msg(DefaultRetries, "OperationalError: connection refused")),
               st, 1, <<>>, <<>>)
  ELSE IF "name" \notin DOMAIN data
  THEN Outcome(500, Formatted("Failed to create category: ", "KeyError: 'name'"), st, 1, <<>>, <<>>)
  ELSE IF name_taken(st, data.name, 0)
  THEN Outcome(400, Fixed("A category with this name already exists"), st, 1, <<>>, <<>>)
  ELSE Outcome(201, NoError,
               [st EXCEPT !.categories = @ \cup {[id |-> Cardinality(st.categories) + 1,
                                                  name |-> data.name,
                                                  description |-> get(data, "description", Null),
                                                  is_active |-> get(data, "is_active", Bool(TRUE)),
                                                  created_at |-> t, updated_at |-> t]}],
               1, <<>>, <<>>)

\* create_category(): the body, its validation, then the connection and the
\* INSERT; t is NOW()
create_category(data, st, t, up) ==
  IF data = EmptyDict
  THEN Outcome(400, Fixed("Request body is required"), st, 0, <<>>, <<>>)
  ELSE IF validate_category_data(data, FALSE) # "none"
  THEN Outcome(400, Fixed(validate_category_data(data, FALSE)), st, 0, <<>>, <<>>)
  ELSE IF ~up
  THEN Outcome(500, Formatted("Failed to create category: ",
                              error_msg(DefaultRetries, "OperationalError: connection refused")),
               st, 1, <<>>, <<>>)
  ELSE IF name_taken(st, data.name, 0)
  THEN Outcome(400, Fixed("A category with this name already exists"), st, 1, <<>>, <<>>)
  ELSE Outcome(201, NoError,
               [st EXCEPT !.categories = @ \cup {[id |-> Cardinality(st.categories) + 1,
                                                  name |-> data.name,
                                                  description |-> get(data, "description", Null),
                                                  is_active |-> get(data, "is_active", Bool(TRUE)),
                                                  created_at |-> t, updated_at |-> t]}],
               1, <<>>, <<>>)

\* update_fields: one entry for each updatable field in the body, then
\* "updated_at = NOW()", which is always appended
update_fields(data) ==
  LET given == {k \in Updatable : k \in DOMAIN data}
  IN given \cup {"updated_at"}

\* the row after UPDATE categories SET <update_fields> WHERE id = %s
updated_row(c, data, t) ==
  [c EXCEPT !.name = get(data, "name", @),
            !.description = get(data, "description", @),
            !.is_active = get(data, "is_active", @),
            !.updated_at = t]

\* update_category() up to its test of update_fields and from it on; nothing
\* says what that test found
update_category_with(nothing, data, id, st, t, up) ==
  IF data = EmptyDict
  THEN Outcome(400, Fixed("Request body is required"), st, 0, <<>>, <<>>)
  ELSE IF validate_category_data(data, TRUE) # "none"
  THEN Outcome(400, Fixed(validate_category_data(data, TRUE)), st, 0, <<>>, <<>>)
  ELSE IF ~up
  THEN Outcome(500, Formatted("Failed to update category: ",
                              error_msg(DefaultRetries, "OperationalError: connection refused")),
               st, 1, <<>>, <<>>)
  ELSE IF ~\E c \in st.categories : c.id = id
  THEN Outcome(404, Fixed("Category with id not found"), st, 1, <<>>, <<>>)
  ELSE IF nothing
  THEN Outcome(400, Fixed("No valid fields to update"), st, 1, <<>>, <<>>)
  ELSE IF "name" \in DOMAIN data /\ name_taken(st, data.name, id)
  THEN Outcome(400, Fixed("A category with this name already exists"), st, 1, <<>>, <<>>)
  ELSE LET c == CHOOSE c \in st.categories : c.id = id
       IN Outcome(200, NoError,
                  [st EXCEPT !.categories = (@ \ {c}) \cup {updated_row(c, data, t)}],
                  1, <<>>, <<>>)

\* routes/category_routes.py: if len(update_fields) == 1
update_category(data, id, st, t, up) ==
  update_category_with(Cardinality(update_fields(data)) = 1, data, id, st, t, up)

\* app.py: if not update_fields
app_update_category(data, id, st, t, up) ==
  update_category_with(update_fields(data) = {}, data, id, st, t, up)

\* NOW() in the statement of the request being started: later at every
\* request
NOW == started + 1

\* a category request as its handler, or the gate before it, leaves it
HandledCategory(ep, h, attrs, data, id, o, t) ==
  [pc |-> "done", endpoint |-> ep, headers |-> h, attrs |-> attrs,
   status |-> o.status, error |-> o.error, at |-> t, body |-> data, id |-> id,
   calls |-> o.calls, wrote |-> o.store # store]

\* the answer of token_required when it does not invoke the handler
Refused(g) == Outcome(g.status, Fixed(g.error), store, 0, <<>>, <<>>)

\* POST /categories (routes/category_routes.py, behind token_required)
CreateCategory(t, h, data, up) ==
  /\ Free(t)
  /\ started < MaxCategoryCalls
  /\ started' = started + 1
  /\ LET g == token_required(h, now, Config)
         o == IF g.invoke THEN create_category(data, store, NOW, up) ELSE Refused(g)
     IN /\ request' = [request EXCEPT ![t] =
                         HandledCategory("create_category", h, g.attrs, data, 0, o, now)]
        /\ store' = o.store
  /\ UNCHANGED <<connection_pool, pool, conns, th, handles, loaded, response,
                 now, tokens, issued, Config, pw>>

\* PUT /categories/<id> (routes/category_routes.py, behind token_required)
UpdateCategory(t, h, id, data, up) ==
  /\ Free(t)
  /\ started < MaxCategoryCalls
  /\ started' = started + 1
  /\ LET g == token_required(h, now, Config)
         o == IF g.invoke THEN update_category(data, id, store, NOW, up) ELSE Refused(g)
     IN /\ request' = [request EXCEPT ![t] =
                         HandledCategory("update_category", h, g.attrs, data, id, o, now)]
        /\ store' = o.store
  /\ UNCHANGED <<connection_pool, pool, conns, th, handles, loaded, response,
                 now, tokens, issued, Config, pw>>

\* PUT /categories/<id> (app.py, no gate)
AppUpdateCategory(t, id, data, up) ==
  /\ Free(t)
  /\ started < MaxCategoryCalls
  /\ started' = started + 1
  /\ LET o == app_update_category(data, id, store, NOW, up)
     IN /\ request' = [request EXCEPT ![t] =
                         HandledCategory("app_update_category", EmptyDict, EmptyDict, data, id, o, now)]
        /\ store' = o.store
  /\ UNCHANGED <<connection_pool, pool, conns, th, handles, loaded, response,
                 now, tokens, issued, Config, pw>>

\* ------------------------------------------------------- specifications
InitCommon ==
  /\ connection_pool = "None"
  /\ pool = NoPool
  /\ conns = [c \in ConnIds |-> "none"]
  /\ handles = {}
  /\ started = 0
  /\ loaded = FALSE
  /\ response = [kind |-> "none", status |-> 0, error |-> NoError]
  /\ now = 0
  /\ tokens = {}
  /\ issued = EmptyDict
  /\ store = EmptyStore

\* the worker process: NumThreads request threads
Init ==
  /\ InitCommon
  /\ th = [t \in 1..NumThreads |-> ThreadInit]
  /\ Config = DefaultConfig
  /\ request = [t \in DOMAIN th |-> NoRequest]
  /\ pw = NoHashes("truncates")

Next ==
  \/ initialize_connection_pool
  \/ \E t \in Threads, k \in Handlers : StartRequest(t, k)
  \/ \E t \in Threads : TryPool(t)
  \/ \E t \in Threads : GetConn(t)
  \/ \E t \in Threads : PoolConnect(t)
  \/ \E t \in Threads : SetTimeout(t)
  \/ \E t \in Threads : TryDirect(t)
  \/ \E t \in Threads : AttemptFailed(t)
  \/ \E t \in Threads : HandlerQuery(t)
  \/ \E t \in Threads : RegisterInsert(t)
  \/ \E t \in Threads : RegisterFinally(t)
  \/ \E t \in Threads : HandlerUnavailable(t)

Spec == Init /\ [][Next]_vars

\* one caller at a time
InitDb ==
  /\ InitCommon
  /\ th = [t \in {1} |-> ThreadInit]
  /\ Config = DefaultConfig
  /\ request = [t \in DOMAIN th |-> NoRequest]
  /\ pw = NoHashes("truncates")

\* get_db_connection called with every retries and delay, nothing released
NextRetry ==
  \/ initialize_connection_pool
  \/ \E t \in Threads, r \in 1..MaxRetries, d \in 1..MaxDelay : CallGet(t, r, d)
  \/ \E t \in Threads : TryPool(t)
  \/ \E t \in Threads : GetConn(t)
  \/ \E t \in Threads : PoolConnect(t)
  \/ \E t \in Threads : SetTimeout(t)
  \/ \E t \in Threads : TryDirect(t)
  \/ \E t \in Threads : AttemptFailed(t)

SpecRetry == InitDb /\ [][NextRetry]_vars

\* get_db_connection called with every integer for retries, zero and negative
\* ones included
NextRetryAny ==
  \/ initialize_connection_pool
  \/ \E t \in Threads, r \in (0 - MaxNegRetries)..MaxRetries, d \in 1..MaxDelay : CallGet(t, r, d)
  \/ \E t \in Threads : TryPool(t)
  \/ \E t \in Threads : GetConn(t)
  \/ \E t \in Threads : PoolConnect(t)
  \/ \E t \in Threads : SetTimeout(t)
  \/ \E t \in Threads : TryDirect(t)
  \/ \E t \in Threads : AttemptFailed(t)
  \/ \E t \in Threads : RangeExhausted(t)

SpecRetryAny == InitDb /\ [][NextRetryAny]_vars

\* get_db_connection and return_db_connection called in any order, with any
\* connection the caller has seen
NextDb ==
  \/ initialize_connection_pool
  \/ \E c \in ConnIds : ServerDrop(c)
  \/ \E t \in Threads : CallGet(t, DefaultRetries, DefaultDelay)
  \/ \E t \in Threads : TryPool(t)
  \/ \E t \in Threads : GetConn(t)
  \/ \E t \in Threads : PoolConnect(t)
  \/ \E t \in Threads : SetTimeout(t)
  \/ \E t \in Threads : TryDirect(t)
  \/ \E t \in Threads : AttemptFailed(t)
  \/ \E t \in Threads, c \in ConnIds \cup {None} : CallReturn(t, c)
  \/ \E t \in Threads, c \in ConnIds : ApiWrite(t, c)
  \/ \E t \in Threads, c \in ConnIds : ApiClose(t, c)
  \/ \E t \in Threads : ForeignConnect(t)

SpecDb == InitDb /\ [][NextDb]_vars

\* as SpecDb, with any of the calls inside return_db_connection failing
NextRelease ==
  \/ initialize_connection_pool
  \/ \E c \in ConnIds : ServerDrop(c)
  \/ \E t \in Threads : CallGet(t, DefaultRetries, DefaultDelay)
  \/ \E t \in Threads : TryPool(t)
  \/ \E t \in Threads : GetConn(t)
  \/ \E t \in Threads : PoolConnect(t)
  \/ \E t \in Threads : SetTimeout(t)
  \/ \E t \in Threads : TryDirect(t)
  \/ \E t \in Threads : AttemptFailed(t)
  \/ \E t \in Threads, c \in ConnIds \cup {None}, f \in SUBSET Faults : CallRelease(t, c, f)
  \/ \E t \in Threads, c \in ConnIds : ApiWrite(t, c)
  \/ \E t \in Threads, c \in ConnIds : ApiClose(t, c)
  \/ \E t \in Threads : ForeignConnect(t)

SpecRelease == InitDb /\ [][NextRelease]_vars

\* test_connection called again and again by one caller
NextHealth ==
  \/ initialize_connection_pool
  \/ \E c \in ConnIds : ServerDrop(c)
  \/ \E t \in Threads : CallTest(t)
  \/ \E t \in Threads : TryPool(t)
  \/ \E t \in Threads : GetConn(t)
  \/ \E t \in Threads : PoolConnect(t)
  \/ \E t \in Threads : SetTimeout(t)
  \/ \E t \in Threads : TryDirect(t)
  \/ \E t \in Threads : AttemptFailed(t)
  \/ \E t \in Threads : TestProbe(t)
  \/ \E t \in Threads : TestExcept(t)
  \/ \E t \in Threads : TestFinally(t)

SpecHealth == InitDb /\ [][NextHealth]_vars

\* the authentication layer, one request at a time, for every configured
\* token lifetime
InitAuth ==
  /\ InitCommon
  /\ th = [t \in {1} |-> ThreadInit]
  /\ request = [t \in DOMAIN th |-> NoRequest]
  /\ pw = NoHashes("truncates")
  /\ \E ttl \in 1..MaxTtl : Config = [DefaultConfig EXCEPT !.JWT_ACCESS_TOKEN_EXPIRES = ttl]

NextAuth ==
  \/ Tick
  \/ \E u \in Users : Cardinality(tokens) < MaxTokens /\ Login(u)
  \/ \E t \in Threads, ep \in Protected, h \in RequestHeaders : ProtectedRequest(t, ep, h)
  \/ \E t \in Threads, h \in RequestHeaders : OptionalRequest(t, h)
  \/ \E t \in Threads, h \in RequestHeaders : VerifyRequest(t, h)
  \/ \E t \in Threads, h \in RequestHeaders : LogoutRequest(t, h)
  \/ \E t \in Threads : WrappedRuns(t)

SpecAuth == InitAuth /\ [][NextAuth]_vars

\* what the clients that logged in send: Bearer and an issued token
BearerHeaders == {[Authorization |-> <<Word("Bearer"), Space, c>>] : c \in tokens}

\* the request threads of one worker, serving /auth/me and /auth/logout,
\* each user logging in once
InitAuthMt ==
  /\ InitCommon
  /\ th = [t \in 1..NumThreads |-> ThreadInit]
  /\ request = [t \in DOMAIN th |-> NoRequest]
  /\ pw = NoHashes("truncates")
  /\ Config = [DefaultConfig EXCEPT !.JWT_ACCESS_TOKEN_EXPIRES = MaxTtl]

NextAuthMt ==
  \/ Tick
  \/ \E u \in Users : (\A tk \in tokens : tk.payload.user_id # u) /\ Login(u)
  \/ \E t \in Threads, h \in BearerHeaders : ProtectedRequest(t, "get_current_user", h)
  \/ \E t \in Threads, h \in BearerHeaders : LogoutRequest(t, h)
  \/ \E t \in Threads : WrappedRuns(t)

SpecAuthMt == InitAuthMt /\ [][NextAuthMt]_vars

\* utils/password.py called with every password and digest, under either
\* bcrypt build
InitPassword ==
  /\ InitCommon
  /\ th = [t \in {1} |-> ThreadInit]
  /\ request = [t \in DOMAIN th |-> NoRequest]
  /\ Config = DefaultConfig
  /\ pw \in {NoHashes(b) : b \in Builds}

NextPassword ==
  \/ \E p \in Passwords : HashPassword(p)
  \/ \E p \in Passwords, d \in Digests \cup Malformed \cup {<<>>} : VerifyPassword(p, d)

SpecPassword == InitPassword /\ [][NextPassword]_vars

\* register and login called with every body, the store answering or not,
\* under either bcrypt build
InitLogin ==
  /\ InitCommon
  /\ th = [t \in {1} |-> ThreadInit]
  /\ request = [t \in DOMAIN th |-> NoRequest]
  /\ Config = DefaultConfig
  /\ pw \in {NoHashes(b) : b \in Builds}

NextLogin ==
  \/ \E t \in Threads, data \in Registrations, up \in BOOLEAN : RegisterRequest(t, data, up)
  \/ \E t \in Threads, data \in LoginBodies, up \in BOOLEAN : LoginRequest(t, data, up)
  \/ \E u \in store.users : Deactivate(u)

SpecLogin == InitLogin /\ [][NextLogin]_vars

\* the category handlers of both applications, called with every body, with
\* and without a token, the store answering or not
NextCategories ==
  \/ \E u \in Users : Cardinality(tokens) < MaxTokens /\ Login(u)
  \/ \E t \in Threads, h \in BearerHeaders \cup {EmptyDict}, data \in CategoryBodies, up \in BOOLEAN :
       CreateCategory(t, h, data, up)
  \/ \E t \in Threads, h \in BearerHeaders \cup {EmptyDict}, id \in CategoryIds,
        data \in CategoryBodies, up \in BOOLEAN :
       UpdateCategory(t, h, id, data, up)
  \/ \E t \in Threads, id \in CategoryIds, data \in CategoryBodies, up \in BOOLEAN :
       AppUpdateCategory(t, id, data, up)

SpecCategories == InitDb /\ [][NextCategories]_vars

\* ------------------------------------------------------------- claims
AllIdle == \A t \in Threads : th[t].pc = "idle"

Borrowed == DOMAIN pool.used

\* thread t has a connection from get_db_connection and has not finished with it
Holding(t) == th[t].pc \in {"timeout", "acquired", "finally"} /\ th[t].conn # None

\* C1: once every request has been answered, no pool slot is still marked
\* as borrowed (each handler gave its connection back with
\* return_db_connection).
C1_NoSlotBorrowedWhenIdle == AllIdle => Borrowed = {}

\* C2: the number of connections borrowed from the pool never exceeds the
\* pool's maximum size.
C2_BorrowedWithinMax == Cardinality(Borrowed) <= maxconn

\* C3: no connection is held by two request threads at the same time.
C3_NoSharedConnection ==
  \A t1, t2 \in Threads :
    (t1 # t2 /\ Holding(t1) /\ Holding(t2)) => th[t1].conn # th[t2].conn

\* C4 as stated: an attempt that finds the pool unavailable or exhausted opens
\* a direct connection, so no attempt ends as failed without a direct
\* connection having been tried.
C4_FallbackWhenUnavailableOrExhausted ==
  \A t \in Threads :
    (th[t].pc = "failed" /\ (connection_pool = "None" \/ th[t].cause = PoolExhausted))
      => th[t].direct

\* C4 amended: with no pool, every attempt opens a direct connection; an
\* attempt that finds the pool exhausted is a failed attempt (PoolError), with
\* no direct connection tried and none returned.
C4_FallbackOnlyWhenUnavailable ==
  \A t \in Threads :
    /\ (connection_pool = "None" /\ th[t].pc \in {"failed", "acquired"}) => th[t].direct
    /\ (th[t].pc = "failed" /\ th[t].cause = PoolExhausted)
         => (~th[t].direct /\ th[t].conn = None)

C4_Witness == \E t \in Threads : th[t].pc = "failed" /\ th[t].cause = PoolExhausted

\* C5: get_db_connection(retries=n) never makes more than n attempts, and
\* when it raises it has made exactly n and the error carries n and the cause
\* of the attempt that failed last.
C5_RaisesAfterExactlyNAttempts ==
  \A t \in Threads :
    /\ th[t].tries <= th[t].retries
    /\ th[t].pc = "raised"
         => /\ th[t].tries = th[t].retries
            /\ th[t].err = [attempts |-> th[t].retries, cause |-> th[t].cause]
            /\ th[t].cause \in ConnectErrors \cup {PoolExhausted}

C5_Witness == \E t \in Threads : th[t].pc = "raised" /\ th[t].retries = 3 /\ th[t].tries = 3

\* C6 as stated: with retries=3 and delay=2 the call has waited at least
\* 2+4+6 = 12 seconds when it raises.
C6_TwelveSecondsBeforeFailure ==
  \A t \in Threads :
    (th[t].pc = "raised" /\ th[t].retries = 3 /\ th[t].delay = 2) => th[t].waited >= 12

\* C6 amended: with retries=3 and delay=2 the call has waited 2+4 = 6
\* seconds when it raises: delay x attempt number after the first and the
\* second failed attempt, nothing after the third.
C6_SixSecondsBeforeFailure ==
  \A t \in Threads :
    (th[t].pc = "raised" /\ th[t].retries = 3 /\ th[t].delay = 2) => th[t].waited = 6

C6_Witness == \E t \in Threads : th[t].pc = "raised" /\ th[t].retries = 3 /\ th[t].delay = 2

\* C7: every connection get_db_connection returns has had the statement
\* timeout applied, or an attempt to apply it that failed.
C7_TimeoutOnEveryConnection ==
  \A t \in Threads :
    (th[t].pc = "acquired" /\ th[t].conn # None) => th[t].tmo # 0

\* C8: return_db_connection issues rollback first and the hand-back to the
\* pool second, whether or not the rollback failed; and no connection idle in
\* the pool has an open transaction.
C8_RollbackBeforeHandBack ==
  /\ \A t \in Threads :
       (th[t].pc = "released" /\ th[t].conn # None)
         => /\ th[t].ops[1] = "rollback"
            /\ connection_pool # "None" => th[t].ops[2] = "putconn"
  /\ \A i \in 1..Len(pool.idle) : conns[pool.idle[i]] # "intrans"

\* a connection released with an open transaction is idle in the pool, clean
C8_Witness ==
  \E t \in Threads :
    /\ th[t].pc = "released"
    /\ th[t].conn # None
    /\ th[t].was = "intrans"
    /\ InIdle(pool, th[t].conn)
    /\ conns[th[t].conn] = "idle"

\* C9: return_db_connection(conn) leaves the connection idle in the pool or
\* closed; return_db_connection(None) issues nothing and changes nothing.
C9_IdleOrClosedAfterRelease ==
  [][\A t \in Threads :
       (th'[t].pc = "released" /\ started' = started + 1)
         => IF th'[t].conn = None
            THEN th'[t].ops = <<>> /\ pool' = pool /\ conns' = conns
            ELSE conns'[th'[t].conn] = "closed" \/ InIdle(pool', th'[t].conn)]_vars

\* the hand-back failed and the connection was force-closed
C9_Witness ==
  \E t \in Threads :
    /\ th[t].pc = "released"
    /\ th[t].conn # None
    /\ th[t].ops = <<"rollback", "putconn", "close">>
    /\ th[t].was \in {"idle", "intrans"}

\* C10: return_db_connection of a connection that is not leased from the
\* pool leaves the idle and the borrowed connections as they were and closes
\* no connection that is idle in the pool.
C10_ForeignReleaseKeepsPool ==
  [][\A t \in Threads :
       (/\ th'[t].pc = "released"
        /\ started' = started + 1
        /\ th'[t].conn # None
        /\ th'[t].conn \notin DOMAIN pool.rused)
         => /\ pool'.idle = pool.idle
            /\ pool'.used = pool.used
            /\ \A i \in 1..Len(pool.idle) :
                 conns'[pool.idle[i]] = "closed" => conns[pool.idle[i]] = "closed"]_vars

\* C11: test_connection always returns a result, connected=true after the
\* probe queries succeeded and connected=false with an error otherwise; a
\* call that acquired a connection has released it through
\* return_db_connection exactly once when it returns (the connection is
\* then no longer borrowed: idle in the pool or closed), and a call that
\* acquired none has released nothing.
C11_ProbeReleasedOnce ==
  \A t \in Threads :
    (th[t].kind = "test_connection" /\ th[t].pc = "returned")
      => /\ th[t].result.connected = (th[t].result.error = "none")
         /\ th[t].result.connected => th[t].conn # None
         /\ IF th[t].conn # None
            THEN /\ th[t].releases = 1
                 /\ th[t].ops[1] = "rollback"
                 /\ th[t].conn \notin Range(pool.used)
                 /\ conns[th[t].conn] = "closed" \/ InIdle(pool, th[t].conn)
            ELSE th[t].releases = 0 /\ th[t].result.error \in ConnectErrors \cup {PoolExhausted}

\* a failing probe query on an acquired connection, released once
C11_Witness ==
  \E t \in Threads :
    /\ th[t].kind = "test_connection"
    /\ th[t].pc = "returned"
    /\ th[t].result = [connected |-> FALSE, error |-> "query failed", pool_status |-> "active"]
    /\ th[t].conn # None
    /\ th[t].releases = 1

\* C12: initialize_connection_pool ends with the module loaded whether or
\* not the store was reachable; when it was not, connection_pool is None
\* from then on and every attempt of every later get_db_connection leaves
\* the pool alone and opens a direct connection.
C12_DegradedModeUsesDirect ==
  (loaded /\ connection_pool = "None")
    => /\ pool = NoPool
       /\ \A t \in Threads :
            /\ th[t].pc \notin {"getconn", "pool_connect"}
            /\ th[t].tries > 0 => th[t].direct
            /\ th[t].conn # None => th[t].direct

\* the second call after a failed initialization got a direct connection
C12_Witness ==
  /\ loaded
  /\ connection_pool = "None"
  /\ started >= 2
  /\ \E t \in Threads : th[t].pc = "acquired" /\ th[t].direct /\ th[t].conn # None

\* ----------------------------------------------------- authentication
\* the header value of thread t's request, as sent
HeaderValue(t) ==
  IF "Authorization" \in DOMAIN request[t].headers THEN request[t].headers.Authorization ELSE <<>>

IsToken(c) == "payload" \in DOMAIN c

\* c is a token signed with the server's key over the payload it carries
SignedByServer(c) ==
  /\ IsToken(c)
  /\ c.sig = [key |-> Config.JWT_SECRET_KEY, alg |-> Config.JWT_ALGORITHM, over |-> c.payload]

\* c would have been accepted at time at
ValidAt(c, at) == SignedByServer(c) /\ c.payload.exp * Resolution > at

\* thread t's request carried a token that was valid when the gate ran
CarriesValid(t) ==
  \E i \in 1..Len(HeaderValue(t)) : ValidAt(HeaderValue(t)[i], request[t].at)

\* the header value is Bearer, one space, one more part
BearerForm(hv) == Len(hv) >= 3 /\ hv[1] = Word("Bearer") /\ hv[2] = Space /\ hv[3] # Space

\* C13: behind token_required the wrapped operation is invoked only for a
\* request whose header is Bearer <token> with a token signed with the
\* server's key whose expiry lies in the future; every other request (no
\* header, a malformed header, a token that fails verification) is answered
\* 401, the wrapped operation is never invoked and nothing is set on the
\* request.
C13_OnlyValidBearerPasses ==
  \A t \in Threads :
    (/\ request[t].endpoint \in Protected
     /\ ~(BearerForm(HeaderValue(t)) /\ ValidAt(HeaderValue(t)[3], request[t].at)))
      => /\ request[t].pc = "done"
         /\ request[t].status = 401
         /\ request[t].attrs = EmptyDict

\* C13 with the form of the header left aside: no request passes
\* token_required without carrying a token that is signed with the server's
\* key and not yet expired.
C13_OnlyValidTokensPass ==
  \A t \in Threads :
    (request[t].endpoint \in Protected /\ ~CarriesValid(t))
      => /\ request[t].pc = "done"
         /\ request[t].status = 401
         /\ request[t].attrs = EmptyDict

\* C14: a request whose Authorization header is not of the form
\* Bearer <token> (another scheme word, or no second part) is answered
\* 401 by token_required and by /auth/verify, whatever the second part is.
C14_OnlyBearerAccepted ==
  \A t \in Threads :
    (/\ request[t].endpoint \in Protected \cup {"verify_token"}
     /\ "Authorization" \in DOMAIN request[t].headers
     /\ ~BearerForm(HeaderValue(t)))
      => request[t].pc = "done" /\ request[t].status = 401

\* C15: while the wrapped operation of a token_required route runs, the
\* request's user_id and user_email are the ones encoded in the token that
\* this request's own header carries, whatever the requests on the other
\* threads carry.
C15_IdentityOfOwnToken ==
  \A t \in Threads :
    (request[t].endpoint \in Protected /\ request[t].pc = "wrapped")
      => /\ IsToken(HeaderValue(t)[3])
         /\ request[t].attrs = [user_id |-> HeaderValue(t)[3].payload.user_id,
                                user_email |-> HeaderValue(t)[3].payload.email]

\* two requests with different users' tokens are inside their wrapped
\* operations at once
C15_Witness ==
  \E t1, t2 \in Threads :
    /\ request[t1].pc = "wrapped"
    /\ request[t2].pc = "wrapped"
    /\ request[t1].attrs = [user_id |-> 1, user_email |-> Email(1)]
    /\ request[t2].attrs = [user_id |-> 2, user_email |-> Email(2)]

\* the part of the header the gates take for the token: what follows the
\* first space, when the header has a first part, one space and more
Presented(hv) ==
  IF Len(hv) >= 3 /\ hv[1] # Space /\ hv[2] = Space /\ hv[3] # Space
  THEN <<hv[3]>>
  ELSE <<>>

\* C16: behind optional_token the wrapped operation is always invoked and
\* the gate answers nothing itself; the request has both user_id and
\* user_email, those of the token, exactly when the header presented a
\* token that is signed with the server's key and unexpired, and has neither
\* attribute in every other case.
C16_IdentityIffValidToken ==
  \A t \in Threads :
    request[t].endpoint = "public_route"
      => /\ request[t].pc \in {"wrapped", "done"}
         /\ request[t].pc = "done" => request[t].status = 200
         /\ request[t].error = "none"
         /\ LET pr == Presented(HeaderValue(t))
            IN IF pr # <<>> /\ ValidAt(pr[1], request[t].at)
               THEN request[t].attrs = [user_id |-> pr[1].payload.user_id,
                                        user_email |-> pr[1].payload.email]
               ELSE DOMAIN request[t].attrs = {}

\* a request with an expired issued token ran anonymously
C16_Witness ==
  \E t \in Threads, tk \in tokens :
    /\ request[t].endpoint = "public_route"
    /\ request[t].headers = [Authorization |-> <<Word("Bearer"), Space, tk>>]
    /\ tk.payload.exp * Resolution <= request[t].at
    /\ request[t].pc = "done"
    /\ request[t].status = 200
    /\ DOMAIN request[t].attrs = {}

\* C17: a token issued by login at time t, presented as Bearer <token> to
\* /auth/verify or to a token_required route, is accepted with its user's id
\* and email at every time before t + ttl and answered 401 as expired at
\* every time from t + ttl on.
C17_ValidUntilTtlElapsed ==
  \A t \in Threads, tk \in tokens :
    (/\ request[t].endpoint \in Protected \cup {"verify_token"}
     /\ request[t].headers = [Authorization |-> <<Word("Bearer"), Space, tk>>])
      => IF request[t].at < issued[tk] + Config.JWT_ACCESS_TOKEN_EXPIRES * Resolution
         THEN /\ request[t].status # 401
              /\ request[t].endpoint \in Protected
                   => request[t].attrs = [user_id |-> tk.payload.user_id,
                                          user_email |-> tk.payload.email]
         ELSE /\ request[t].status = 401
              /\ request[t].error \in {"Token has expired",
                                       "Token has expired. Please login again."}

\* a step in which a logout request is answered
LogoutStep == \E t \in Threads : request'[t] # request[t] /\ request'[t].endpoint = "logout"

\* every request that presented an issued token before the token's expiry
\* time was accepted
AcceptedUntilExpiry ==
  \A t \in Threads, tk \in tokens :
    (/\ request[t].endpoint \in Protected \cup {"verify_token"}
     /\ request[t].headers = [Authorization |-> <<Word("Bearer"), Space, tk>>]
     /\ request[t].at < tk.payload.exp * Resolution)
      => request[t].status # 401

\* C18: a logout request changes nothing on the server (configuration,
\* issued tokens, pool and connections stay as they were) and every token
\* gets the same verdict after it as before; whatever requests were served
\* before, an issued token presented before its expiry time is accepted.
C18_LogoutRevokesNothing ==
  [][/\ AcceptedUntilExpiry'
     /\ LogoutStep
          => /\ UNCHANGED <<dbvars, now, tokens, issued, Config>>
             /\ \A tk \in tokens :
                  jwt_decode(<<tk>>, Config'.JWT_SECRET_KEY, Config'.JWT_ALGORITHM, now')
                    = jwt_decode(<<tk>>, Config.JWT_SECRET_KEY, Config.JWT_ALGORITHM, now)]_vars

\* one thread answered a logout that carried a token; later another thread
\* accepted the same token
C18_Witness ==
  \E t1, t2 \in Threads, tk \in tokens :
    /\ request[t1].endpoint = "logout"
    /\ request[t1].pc = "done"
    /\ request[t1].headers = [Authorization |-> <<Word("Bearer"), Space, tk>>]
    /\ request[t2].endpoint \in Protected
    /\ request[t2].headers = request[t1].headers
    /\ request[t2].at > request[t1].at
    /\ request[t2].attrs = [user_id |-> tk.payload.user_id, user_email |-> tk.payload.email]

\* ------------------------------------------------------------- passwords
\* C19: hash_password(p) of a non-empty password returns a digest that
\* differs from every digest returned before and against which p verifies;
\* verify_password(p, d) for a digest d that hash_password(p2) returned is
\* true when p = p2 and false when p differs from p2.
C19_VerifiesOwnPasswordOnly ==
  /\ (pw.last.op = "hash_password" /\ pw.last.password # <<>>)
       => /\ pw.last.result.raised = "none"
          /\ verify_password(pw.last.password, pw.last.result.value, pw.bcrypt).value
          /\ \A h1, h2 \in pw.hashed : h1.digest = h2.digest => h1 = h2
  /\ \A h \in pw.hashed :
       (pw.last.op = "verify_password" /\ pw.last.digest = h.digest /\ pw.last.password # <<>>)
         => pw.last.result.value = (pw.last.password = h.password)

\* C20: hash_password of the empty password raises ValueError and stores
\* no digest for it; verify_password always returns, and returns false for
\* an empty password, an empty digest and a digest that does not parse.
C20_EmptyAndMalformedRejected ==
  /\ (pw.last.op = "hash_password" /\ pw.last.password = <<>>)
       => pw.last.result = Raised("ValueError: Password cannot be empty")
  /\ \A h \in pw.hashed : h.password # <<>>
  /\ pw.last.op = "verify_password"
       => /\ pw.last.result.raised = "none"
          /\ pw.last.result.value \in BOOLEAN
          /\ (pw.last.password = <<>> \/ pw.last.digest \notin Digests)
               => pw.last.result.value = FALSE

\* a password checked against a digest cut short, answered false
C20_Witness ==
  /\ pw.last.op = "verify_password"
  /\ pw.last.password # <<>>
  /\ \E d \in Digests : pw.last.digest = <<[checksum |-> d[1].checksum]>>
  /\ pw.last.result = Returned(FALSE)

\* ------------------------------------------------------------------ C26
\* the waits of a call that has failed k times and slept after each: d x (1 + ... + k)
Triangle(d, k) == d * ((k * (k + 1)) \div 2)

C27_NeverReturnsNone ==
  \A t \in Threads : th[t].pc = "acquired" => th[t].conn # None

\* ------------------------------------------------------------------ C30
\* C30: connection_pool is decided by initialize_connection_pool at module
\* load and no later step changes it. After a failed initialization every
\* connection get_db_connection returns is a direct one and every release
\* of a connection rolls back and closes it, also once the store answers
\* again; after a successful one the pool is never set to None.
C30_PoolDecidedAtLoad ==
  /\ [][loaded => (loaded' /\ connection_pool' = connection_pool)]_vars
  /\ []((loaded /\ connection_pool = "None")
          => \A t \in Threads :
               /\ (th[t].pc = "acquired" /\ th[t].conn # None) => th[t].direct
               /\ (th[t].pc = "released" /\ th[t].conn # None)
                    => (th[t].ops = <<"rollback", "close">> /\ conns[th[t].conn] = "closed"))

\* degraded mode: a connection was released and closed, the next call failed
\* once and then reached the store, and there is still no pool
C30_Witness ==
  /\ loaded
  /\ connection_pool = "None"
  /\ \E c \in handles : conns[c] = "closed"
  /\ \E t \in Threads : th[t].pc = "acquired" /\ th[t].direct /\ th[t].attempt >= 1

\* ------------------------------------------------------------------ C29
\* C29: return_db_connection never lets an exception reach its caller,
\* whichever of its rollback, its hand-back to the pool and its close fail,
\* with a pool and without one: every call returns.
C29_ReleaseNeverRaises ==
  [][\A t \in Threads :
       th'[t].kind = "release" => th'[t].pc = "released"]_vars

\* no pool, and both the rollback and the close of a live connection failed
C29_Witness ==
  \E t \in Threads :
    /\ connection_pool = "None"
    /\ th[t].pc = "released"
    /\ th[t].kind = "release"
    /\ th[t].was \in {"idle", "intrans"}
    /\ th[t].ops = <<"rollback", "close", "close">>

\* ------------------------------------------------------------------ C22
\* C22: whichever handler called it, when get_db_connection raises after its
\* last attempt the answer sent is 503.
C22_UnavailableIs503 ==
  [][\A t \in Threads :
       (th[t].pc = "raised" /\ th[t].kind \in Handlers /\ th'[t].pc = "idle")
         => (response'.kind = th[t].kind /\ response'.status = 503)]_vars

\* ------------------------------------------------------------------ C24
\* C24: a 500 answer carries a fixed error text and nothing taken from the
\* exception the handler caught.
C24_NoExceptionTextIn500 ==
  response.status = 500 => response.error.str_e = {}

\* ------------------------------------------------------------------ C23
\* thread t's request is GET /auth/me with Bearer and a token the server
\* signed whose expiry had passed when the gate ran
PresentsExpired(t) ==
  /\ request[t].endpoint = "get_current_user"
  /\ Len(HeaderValue(t)) = 3
  /\ BearerForm(HeaderValue(t))
  /\ SignedByServer(HeaderValue(t)[3])
  /\ HeaderValue(t)[3].payload.exp * Resolution <= request[t].at

\* C23 as stated: an expired token on GET /auth/me is answered 401 with the
\* error "Token has expired", and the user lookup does not run.
C23_ExpiredAnsweredTokenHasExpired ==
  \A t \in Threads :
    PresentsExpired(t)
      => /\ request[t].pc = "done"
         /\ request[t].status = 401
         /\ request[t].error = "Token has expired"

\* C23 amended: an expired token on GET /auth/me is answered 401 with the
\* error "Token has expired. Please login again.", and the user lookup does
\* not run.
C23_ExpiredAnsweredLoginAgain ==
  \A t \in Threads :
    PresentsExpired(t)
      => /\ request[t].pc = "done"
         /\ request[t].status = 401
         /\ request[t].error = "Token has expired. Please login again."
         /\ request[t].attrs = EmptyDict

C23_Witness ==
  \E t \in Threads : PresentsExpired(t) /\ request[t].status = 401 /\ request[t].at > 0

\* ------------------------------------------------------------------ C21
\* the rows login's lookup finds for the body of thread t's new request
Looked(t) == users_by_email(store, strip(lower(request'[t].body.email)))

\* password is the one u registered with
OwnPassword(u, password) ==
  \E h \in pw.hashed : h.digest = u.password_hash /\ h.password = password

\* thread t's new request is a login that got as far as the lookup
LoginLookedUp(t) ==
  /\ started' = started + 1
  /\ request'[t].endpoint = "login"
  /\ request'[t].status \in {200, 401}

\* the token of thread t's new request is for the id and the email of row u
TokenFor(t, u) ==
  /\ Len(request'[t].token) = 1
  /\ request'[t].token[1].payload.user_id = u.id
  /\ request'[t].token[1].payload.email = u.email
  /\ request'[t].token[1] \in tokens'

\* C21: login answers 200 with a token only when a user with the lower-cased
\* and trimmed email exists, is active and the password is that user's; for
\* an unknown email, a deactivated account or a wrong password the answer is
\* 401 with no token issued; the token carries that user's id and email.
C21_LoginOnlyWithOwnPassword ==
  [][\A t \in Threads :
       LoginLookedUp(t)
         => IF \E u \in Looked(t) : u.is_active /\ OwnPassword(u, request'[t].body.password)
            THEN /\ request'[t].status = 200
                 /\ \E u \in Looked(t) : TokenFor(t, u)
            ELSE /\ request'[t].status = 401
                 /\ request'[t].token = <<>>
                 /\ tokens' = tokens]_vars

\* the same with "the password verifies against the stored hash" in place
\* of "the password is that user's"
C21_LoginOnlyWithVerifyingPassword ==
  [][\A t \in Threads :
       LoginLookedUp(t)
         => IF \E u \in Looked(t) :
                 u.is_active /\ verify_password(request'[t].body.password, u.password_hash, pw.bcrypt).value
            THEN /\ request'[t].status = 200
                 /\ \E u \in Looked(t) : TokenFor(t, u)
            ELSE /\ request'[t].status = 401
                 /\ request'[t].token = <<>>
                 /\ tokens' = tokens]_vars

\* ------------------------------------------------------------------ C25
\* thread t's request passed token_required and reached create_category
\* with a body that has no 'name'
CreateWithoutName(t) ==
  /\ request[t].endpoint = "create_category"
  /\ request[t].attrs # EmptyDict
  /\ "name" \notin DOMAIN request[t].body

\* C25 as stated: an authenticated POST /categories whose body has no 'name'
\* is answered 400 "Field 'name' is required" with no get_db_connection call
\* made and no category created.
C25_NoNameIsFieldRequired ==
  \A t \in Threads :
    CreateWithoutName(t)
      => /\ request[t].status = 400
         /\ request[t].error = Fixed("Field 'name' is required")
         /\ request[t].calls = 0
         /\ ~request[t].wrote

\* C25 amended: an authenticated POST /categories whose body has no 'name'
\* is answered 400 with no get_db_connection call made and no category
\* created; the error is "Field 'name' is required" when the body is a
\* non-empty object and "Request body is required" when it is empty.
C25_NoNameRejectedBeforeConnecting ==
  \A t \in Threads :
    CreateWithoutName(t)
      => /\ request[t].status = 400
         /\ request[t].error = IF request[t].body = EmptyDict
                               THEN Fixed("Request body is required")
                               ELSE Fixed("Field 'name' is required")
         /\ request[t].calls = 0
         /\ ~request[t].wrote

\* the scenario's body: a description and no name
C25_Witness ==
  \E t \in Threads :
    /\ CreateWithoutName(t)
    /\ request[t].body = [description |-> Str("x")]
    /\ request[t].status = 400

\* ------------------------------------------------------------------ C28
\* thread t's request is a PUT that reached the test of update_fields in
\* either application (authenticated, the store answering, the category
\* there) with a non-empty body that has none of the updatable fields
UpdateWithNoField(t) ==
  /\ request[t].endpoint \in {"update_category", "app_update_category"}
  /\ request[t].body # EmptyDict
  /\ \A k \in Updatable : k \notin DOMAIN request[t].body
  /\ request[t].status \notin {401, 404, 500}

\* C28: PUT /categories/{id} for an existing category with a non-empty body
\* that has none of name, description and is_active is answered 400 "No
\* valid fields to update" and leaves the row, updated_at included, as it
\* was, in routes/category_routes.py and in app.py.
C28_NoFieldsIsRejected ==
  \A t \in Threads :
    UpdateWithNoField(t)
      => /\ request[t].status = 400
         /\ request[t].error = Fixed("No valid fields to update")
         /\ ~request[t].wrote

\* the same for routes/category_routes.py alone
C28_NoFieldsIsRejectedByRoutes ==
  \A t \in Threads :
    (UpdateWithNoField(t) /\ request[t].endpoint = "update_category")
      => /\ request[t].status = 400
         /\ request[t].error = Fixed("No valid fields to update")
         /\ ~request[t].wrote
====
